---------------------------- MODULE Spec2Model ----------------------------
(***************************************************************************)
(* A model of the hotspot backend (src/hotspot_backend.py): the interface  *)
(* inventory, the upstream resolver, the interface selector, the preflight *)
(* validator, the rule engine (iptables chains as rule lists) and the      *)
(* session state machine of main() with its monitor loop and teardown.     *)
(*                                                                         *)
(* External tools are the environment: what nmcli, iw, ip and hostapd      *)
(* answer is an input, drawn from small sets.  Python's None and the empty *)
(* string, both falsy, are the empty string here (NoIface).                *)
(***************************************************************************)
EXTENDS Integers, Sequences, FiniteSets, TLC

(***************************************************************************)
(* Sequence helpers.                                                       *)
(***************************************************************************)
RECURSIVE Filter(_, _)
\* [x for x in s if Test(x)], Test given as the set of accepted elements
Filter(s, good) ==
    IF s = <<>> THEN <<>>
    ELSE IF Head(s) \in good THEN <<Head(s)>> \o Filter(Tail(s), good)
         ELSE Filter(Tail(s), good)

Range(s) == {s[i] : i \in 1..Len(s)}

\* all sequences over S of length at most n
SeqsUpTo(S, n) == UNION {[1..k -> S] : k \in 0..n}

(***************************************************************************)
(* Device names.  A name is an atom here; Chars spells it, so that the     *)
(* code's str.startswith tests are computed on the spelling.               *)
(***************************************************************************)
NoIface == ""

Chars(n) ==
    CASE n = "wlan0"    -> <<"w","l","a","n","0">>
      [] n = "wlan1"    -> <<"w","l","a","n","1">>
      [] n = "wlan0_ap" -> <<"w","l","a","n","0","_","a","p">>
      [] n = "wlan1_ap" -> <<"w","l","a","n","1","_","a","p">>
      [] n = "wlan2"    -> <<"w","l","a","n","2">>
      [] n = "eth0"     -> <<"e","t","h","0">>
      [] n = "eth1"     -> <<"e","t","h","1">>
      [] n = "veth0"    -> <<"v","e","t","h","0">>
      [] n = "wg0"      -> <<"w","g","0">>
      [] n = "tun0"     -> <<"t","u","n","0">>
      [] n = "vpn0"     -> <<"v","p","n","0">>
      [] n = "wwan0"    -> <<"w","w","a","n","0">>
      [] n = "usb0"     -> <<"u","s","b","0">>
      [] n = "lo"       -> <<"l","o">>
      [] n = "docker0"  -> <<"d","o","c","k","e","r","0">>
      [] OTHER          -> <<>>

\* str.startswith(prefix)
StartsWith(n, p) ==
    Len(p) <= Len(Chars(n)) /\ SubSeq(Chars(n), 1, Len(p)) = p

\* str.startswith(tuple of prefixes)
StartsWithAny(n, ps) == \E p \in ps : StartsWith(n, p)

\* 'usb' in dev_name.lower()
ContainsUsb(n) ==
    \E i \in 1..Len(Chars(n)) :
        i + 2 <= Len(Chars(n)) /\ SubSeq(Chars(n), i, i + 2) = <<"u","s","b">>

skip_prefixes ==
    { <<"l","o">>, <<"d","o","c","k","e","r">>, <<"b","r","-">>,
      <<"v","e","t","h">>, <<"v","i","r","b","r">>, <<"p","2","p","-">>,
      <<"v","b","o","x","n","e","t">> }

inventory_vpn_prefixes ==
    { <<"t","u","n">>, <<"t","a","p">>, <<"w","g">>, <<"p","p","p">>, <<"v","p","n">> }

mobile_prefixes ==
    { <<"w","w","a","n">>, <<"w","w","p">>, <<"c","d","c">>, <<"m","b","i","m">> }

tether_prefixes ==
    { <<"u","s","b">>, <<"e","n","p","0","s","2","0","u">>, <<"e","n","p","0","s","2">> }

vpn_prefixes ==
    { <<"t","u","n">>, <<"t","a","p">>, <<"w","g">>, <<"p","p","p">> }

CONNECTION_NAME == "temp_hotspot_con"

(***************************************************************************)
(* The host as the tools report it.  A device is                           *)
(*   name, type, state, connection : one line of nmcli -t -f               *)
(*                                   DEVICE,TYPE,STATE,CONNECTION device   *)
(*   ip       : the device has an IPv4 address (ip -4 addr show)           *)
(*   devpath  : what /sys/class/net/<name>/device resolves to:             *)
(*              "pci", "usb" (a path with /usb), "platform" (neither),     *)
(*              "virtual" (under /virtual/), "none" (no device link)       *)
(*   ap, g5   : what iw says of AP mode and of 5 GHz: "yes", "no", "fail"  *)
(*   conc     : the concurrency probe's channel count, 0 for unsupported   *)
(*   monitor  : iw dev info says "type monitor"                            *)
(*   channel  : the operating channel iw dev info reports, 0 for none      *)
(***************************************************************************)
Dev(n, t, st, c, ip, path, ap, g5, conc, mon, ch) ==
    [name |-> n, type |-> t, state |-> st, connection |-> c, ip |-> ip,
     devpath |-> path, ap |-> ap, g5 |-> g5, conc |-> conc, monitor |-> mon,
     channel |-> ch]

\* check_ap_mode_support_for_iface: a tool failure is "supported"
check_ap_mode_support_for_iface(d) == d.ap # "no"

\* check_5ghz_support_for_iface: a tool failure is "unsupported"
check_5ghz_support_for_iface(d) == d.g5 = "yes"

\* get_detailed_interfaces, the record built for one nmcli line
IfaceInfo(d) ==
    LET n      == d.name
        isvpn  == StartsWithAny(n, inventory_vpn_prefixes)
        ismob  == StartsWithAny(n, mobile_prefixes)
        isbr   == StartsWith(n, <<"b","r">>) /\ ~StartsWith(n, <<"b","r","-">>)
        wifi   == d.type = "wifi"
        haspath == d.devpath \in {"pci", "usb", "platform", "virtual"}
        apok   == wifi /\ check_ap_mode_support_for_iface(d)
        conn   == d.state = "connected"
    IN  [ name |-> n,
          type |-> IF isbr THEN "bridge"
                   ELSE IF ismob THEN "mobile"
                   ELSE IF isvpn THEN "vpn" ELSE d.type,
          state |-> d.state,
          connected |-> conn,
          connection_name |-> IF d.connection # "" /\ d.connection # "--"
                              THEN d.connection ELSE "",
          is_usb |-> haspath /\ d.devpath = "usb",
          is_internal |-> haspath /\ d.devpath = "pci",
          is_vpn |-> isvpn,
          is_mobile |-> ismob,
          is_tethered |-> StartsWithAny(n, tether_prefixes) /\ ContainsUsb(n),
          is_bridge |-> isbr,
          ap_support |-> apok,
          supports_5ghz |-> wifi /\ check_5ghz_support_for_iface(d),
          supports_concurrency |-> wifi /\ d.conc >= 1,
          concurrency_channels |-> IF wifi /\ d.conc >= 1 THEN d.conc ELSE 0,
          in_monitor_mode |-> wifi /\ d.monitor,
          has_ip |-> d.ip,
          is_internet_source |-> FALSE,
          issues |-> (IF wifi /\ ~apok THEN <<"No AP mode support">> ELSE <<>>)
                     \o (IF wifi /\ d.monitor THEN <<"In monitor mode">> ELSE <<>>)
                     \o (IF conn /\ ~d.ip THEN <<"Connected but no IP">> ELSE <<>>) ]

RECURSIVE MarkFirst(_, _)
\* the loop that marks the first interface named like the default route's device
MarkFirst(s, n) ==
    IF s = <<>> THEN <<>>
    ELSE IF Head(s).name = n
         THEN <<[Head(s) EXCEPT !.is_internet_source = TRUE]>> \o Tail(s)
         ELSE <<Head(s)>> \o MarkFirst(Tail(s), n)

RECURSIVE InfoOf(_)
InfoOf(ds) ==
    IF ds = <<>> THEN <<>>
    ELSE IF StartsWithAny(Head(ds).name, skip_prefixes) \/ Head(ds).type = "wifi-p2p"
         THEN InfoOf(Tail(ds))
         ELSE <<IfaceInfo(Head(ds))>> \o InfoOf(Tail(ds))

\* get_detailed_interfaces: ds is the device list, rt the default-route table
get_detailed_interfaces(ds, rt) ==
    IF rt = <<>> THEN InfoOf(ds) ELSE MarkFirst(InfoOf(ds), rt[1])

\* get_wifi_interfaces
get_wifi_interfaces(ds, rt) ==
    LET all == get_detailed_interfaces(ds, rt)
        w   == Filter(all, {i \in Range(all) : i.type = "wifi"})
    IN  [k \in 1..Len(w) |-> w[k].name]

(***************************************************************************)
(* Upstream Resolver.  rt lists the devices of the default routes in the   *)
(* order ip prints them; the kernel's answer to "ip route get" is the      *)
(* first of them, and no answer when there is none.                        *)
(***************************************************************************)
\* a plausible slip: no fallback to the first candidate when all are filtered
get_upstream_interface_strict(rt, exclude_vpn) ==
    IF ~exclude_vpn
    THEN IF rt # <<>> THEN rt[1] ELSE NoIface
    ELSE LET filtered == Filter(rt, {n \in Range(rt) : ~StartsWithAny(n, vpn_prefixes)})
         IN  IF filtered # <<>> THEN filtered[1] ELSE NoIface

get_upstream_interface(rt, exclude_vpn) ==
    IF ~exclude_vpn
    THEN IF rt # <<>> THEN rt[1] ELSE NoIface
    ELSE LET filtered == Filter(rt, {n \in Range(rt) : ~StartsWithAny(n, vpn_prefixes)})
         IN  IF filtered # <<>> THEN filtered[1]
             ELSE IF rt # <<>> THEN rt[1] ELSE NoIface

\* a plausible slip: every distinct upstream taken for a separate adapter
is_physical_interface_any(ds, n) == TRUE

\* is_physical_interface
is_physical_interface(ds, n) ==
    \E k \in 1..Len(ds) :
        /\ ds[k].name = n
        /\ ds[k].devpath \in {"pci", "usb", "platform"}


(***************************************************************************)
(* Interface Selector.  reason is the text, one element per " | " part;    *)
(* warnings is the function's local list, which the code folds into the    *)
(* reason text.                                                            *)
(***************************************************************************)
Names(s) == [k \in 1..Len(s) |-> s[k].name]

\* the lists the selector builds from the inventory
Categorise(interfaces) ==
    LET R(s) == Range(s)
        ethernet_ifaces == Filter(interfaces,
            {i \in R(interfaces) : i.type = "ethernet" /\ i.state # "unavailable"})
        wifi_ifaces == Filter(interfaces, {i \in R(interfaces) : i.type = "wifi"})
        internal_wifi == Filter(wifi_ifaces,
            {i \in R(wifi_ifaces) : i.is_internal /\ ~i.in_monitor_mode})
        concurrent_wifi == Filter(wifi_ifaces,
            {i \in R(wifi_ifaces) :
                i.supports_concurrency /\ i.ap_support /\ ~i.in_monitor_mode})
    IN  [ ethernet_ifaces |-> ethernet_ifaces,
          wifi_ifaces |-> wifi_ifaces,
          mobile_ifaces |->
              Filter(interfaces, {i \in R(interfaces) : i.is_mobile /\ i.has_ip}),
          tether_ifaces |->
              Filter(interfaces, {i \in R(interfaces) : i.is_tethered /\ i.has_ip}),
          usb_wifi |-> Filter(wifi_ifaces,
              {i \in R(wifi_ifaces) : i.is_usb /\ i.ap_support /\ ~i.in_monitor_mode}),
          internal_wifi |-> internal_wifi,
          ap_capable_wifi |-> Filter(wifi_ifaces,
              {i \in R(wifi_ifaces) : i.ap_support /\ ~i.in_monitor_mode}),
          connected_ethernet |-> Filter(ethernet_ifaces,
              {i \in R(ethernet_ifaces) : i.connected \/ i.has_ip}),
          connected_wifi |-> Filter(wifi_ifaces, {i \in R(wifi_ifaces) : i.connected}),
          monitor_mode_ifaces |->
              Filter(wifi_ifaces, {i \in R(wifi_ifaces) : i.in_monitor_mode}),
          concurrent_wifi |-> concurrent_wifi,
          concurrent_and_connected |->
              Filter(concurrent_wifi, {i \in R(concurrent_wifi) : i.connected}),
          internal_with_ap |->
              Filter(internal_wifi, {i \in R(internal_wifi) : i.ap_support}) ]

\* === DETERMINE INTERNET SOURCE ===: [i |-> device, r |-> reason, w |-> warnings]
InternetSource(c, manual_internet_iface) ==
    IF manual_internet_iface # NoIface
      THEN [i |-> manual_internet_iface, r |-> <<"manual">>, w |-> <<>>]
    ELSE IF c.connected_ethernet # <<>>
      THEN [i |-> c.connected_ethernet[1].name,
            r |-> IF c.connected_ethernet[1].is_usb
                  THEN <<"usb_ethernet">> ELSE <<"ethernet">>,
            w |-> <<>>]
    ELSE IF c.mobile_ifaces # <<>>
      THEN [i |-> c.mobile_ifaces[1].name, r |-> <<"mobile">>, w |-> <<>>]
    ELSE IF c.tether_ifaces # <<>>
      THEN [i |-> c.tether_ifaces[1].name, r |-> <<"tether">>, w |-> <<>>]
    ELSE IF c.connected_wifi # <<>>
      THEN [i |-> c.connected_wifi[1].name, r |-> <<"wifi">>, w |-> <<>>]
    ELSE [i |-> NoIface, r |-> <<"no_internet_source">>, w |-> <<"no_internet_access">>]

\* === DETERMINE HOTSPOT INTERFACE ===: [h |-> device, r |-> reason, w |-> warnings]
HotspotChoice(c, src, warnings) ==
    IF c.usb_wifi # <<>>
      THEN [h |-> c.usb_wifi[1].name, r |-> src.r \o <<"usb_adapter">>, w |-> warnings]
    ELSE IF c.concurrent_wifi # <<>>
      THEN IF c.concurrent_and_connected # <<>>
              /\ src.i \in Range(Names(c.concurrent_and_connected))
           THEN LET candidate == Filter(c.concurrent_and_connected,
                       {i \in Range(c.concurrent_and_connected) : i.name = src.i})[1]
                IN  [h |-> candidate.name,
                     r |-> src.r \o (IF candidate.concurrency_channels >= 2
                                     THEN <<"same_wifi_multi_channel">>
                                     ELSE <<"same_wifi_same_channel">>),
                     w |-> warnings]
           ELSE [h |-> c.concurrent_wifi[1].name,
                 r |-> src.r \o (IF c.concurrent_wifi[1].connected
                                 THEN <<"builtin_concurrent">> ELSE <<"builtin">>),
                 w |-> warnings]
    ELSE IF c.internal_wifi # <<>>
      THEN IF c.internal_with_ap # <<>>
           THEN IF c.internal_with_ap[1].name = src.i
                THEN IF Len(c.wifi_ifaces) = 1 /\ c.connected_ethernet = <<>>
                        /\ c.mobile_ifaces = <<>> /\ c.tether_ifaces = <<>>
                     THEN [h |-> c.internal_with_ap[1].name,
                           r |-> <<"single_adapter">>,
                           w |-> warnings \o <<"only_wifi_will_switch">>]
                     ELSE [h |-> c.internal_with_ap[1].name,
                           r |-> src.r \o <<"builtin">>, w |-> warnings]
                ELSE [h |-> c.internal_with_ap[1].name,
                      r |-> src.r \o <<"builtin">>, w |-> warnings]
           ELSE [h |-> NoIface, r |-> src.r, w |-> warnings]
    ELSE IF c.ap_capable_wifi # <<>>
      THEN [h |-> c.ap_capable_wifi[1].name, r |-> src.r \o <<"wifi">>, w |-> warnings]
    ELSE [h |-> NoIface,
          r |-> IF c.wifi_ifaces # <<>>
                THEN IF \E i \in Range(c.wifi_ifaces) : ~i.ap_support
                     THEN <<"no_ap_support">>
                     ELSE IF c.monitor_mode_ifaces # <<>>
                          THEN <<"in_monitor_mode">> ELSE <<"wifi_issues">>
                ELSE <<"no_wifi_adapter">>,
          w |-> warnings]

\* return internet_iface, hotspot_iface, reason (the warnings joined to it)
\* a plausible slip: the warnings never reach the result
SelectionResult_silent(internet_iface, hs) ==
    [internet_iface |-> internet_iface, hotspot_iface |-> hs.h,
     reason |-> hs.r, warnings |-> <<>>]

SelectionResult(internet_iface, hs) ==
    [internet_iface |-> internet_iface, hotspot_iface |-> hs.h,
     reason |-> hs.r \o hs.w, warnings |-> hs.w]

\* a plausible slip: the list outlives the call (a module-level list, or a
\* mutable default argument)
warnings_at_entry_kept(left) == left

\* warnings = []: the list of a call is new, whatever an earlier call left
warnings_at_entry(left) == <<>>

\* the selection of a call that starts with the warnings entry
SelectHotspotFrom(c, src, entry) ==
    SelectionResult(src.i,
        HotspotChoice(c, src,
            entry \o src.w
                \o (IF c.monitor_mode_ifaces # <<>> THEN <<"monitor_mode">> ELSE <<>>)))

\* a call of the selector after a call that left the warnings left
SelectCall(c, manual_internet_iface, left) ==
    SelectHotspotFrom(c, InternetSource(c, manual_internet_iface),
                      warnings_at_entry(left))

SelectHotspot(c, src) == SelectHotspotFrom(c, src, warnings_at_entry(<<>>))

SelectAmong(c, manual_internet_iface) ==
    SelectHotspot(c, InternetSource(c, manual_internet_iface))

get_smart_interface_selection(ds, rt, manual_internet_iface) ==
    SelectAmong(Categorise(get_detailed_interfaces(ds, rt)), manual_internet_iface)

\* get_smart_interface: the selector, then the legacy fallback
LegacyFallback(selected, wifi_devs, upstream) ==
    IF selected # NoIface THEN selected
    ELSE IF wifi_devs = <<>> THEN NoIface
    ELSE IF Filter(wifi_devs, {d \in Range(wifi_devs) : d # upstream}) # <<>>
         THEN Filter(wifi_devs, {d \in Range(wifi_devs) : d # upstream})[1]
    ELSE wifi_devs[1]

get_smart_interface(ds, rt, exclude_vpn, manual_internet_iface) ==
    LegacyFallback(get_smart_interface_selection(ds, rt, manual_internet_iface).hotspot_iface,
                   get_wifi_interfaces(ds, rt),
                   get_upstream_interface(rt, exclude_vpn))


(***************************************************************************)
(* Preflight Validator.  An error or warning is named by a short tag.      *)
(* env is what the tools answer during the checks:                         *)
(*   nm     : systemctl is-active NetworkManager: "active", "inactive",    *)
(*            "error" (the command raises)                                 *)
(*   rfkill : rfkill list wifi: "ok", "hard", "soft", "fail"               *)
(*   link   : ip link show <target>: "up", "missing", "down_recovers",     *)
(*            "down_stays", "no_carrier", "error"                          *)
(*   others : pgrep finds another backend                                  *)
(* A password or SSID is its length (and, for the SSID, whether it has a   *)
(* non-ASCII character); ret names the return statement taken.             *)
(***************************************************************************)
\* check_rfkill_status
check_rfkill_status(rfkill) == rfkill \notin {"hard", "soft"}

\* check_interface_state: <<ok, is there a message>>
check_interface_state(link) ==
    CASE link = "missing"    -> [ok |-> FALSE, msg |-> TRUE]
      [] link = "down_stays" -> [ok |-> TRUE,  msg |-> TRUE]
      [] link = "no_carrier" -> [ok |-> TRUE,  msg |-> TRUE]
      [] OTHER               -> [ok |-> TRUE,  msg |-> FALSE]

\* the password check (13.)
PasswordErrors(password) ==
    IF password > 0
    THEN IF password < 8 THEN <<"password_short">>
         ELSE IF password > 63 THEN <<"password_long">> ELSE <<>>
    ELSE <<>>

\* the SSID check (12.)
SsidErrors(ssid) ==
    IF ssid.len > 0 /\ (ssid.len < 1 \/ ssid.len > 32) THEN <<"ssid_length">> ELSE <<>>

\* a plausible slip: the only-radio case always passes with a warning
OnlyWifi_never_blocks(force_single_interface) ==
    [e |-> <<>>, w |-> <<"forced_disconnect">>]

\* a plausible slip: the only-radio case is fatal whatever the flag
OnlyWifi_always_blocks(force_single_interface) ==
    [e |-> <<"blocked_only_wifi">>, w |-> <<>>]

\* the target is the only Wi-Fi radio and the only source of internet
OnlyWifi(force_single_interface) ==
    IF force_single_interface THEN [e |-> <<>>, w |-> <<"forced_disconnect">>]
    ELSE [e |-> <<"blocked_only_wifi">>, w |-> <<>>]

\* the busy / conflict analysis (9.): [e |-> errors, w |-> warnings]
BusyAnalysis(t, wifi, ethernet, mobile, tether, upstream, force) ==
    LET R(s) == Range(s)
        connected_ethernet == Filter(ethernet, {i \in R(ethernet) : i.connected \/ i.has_ip})
        connected_mobile == Filter(mobile, {i \in R(mobile) : i.has_ip})
        connected_tether == Filter(tether, {i \in R(tether) : i.has_ip})
        connected_wifi == Filter(wifi, {i \in R(wifi) : i.connected /\ i.name # t.name})
        has_alternative_internet ==
            connected_ethernet # <<>> \/ connected_mobile # <<>>
                \/ connected_tether # <<>> \/ connected_wifi # <<>>
        is_internet_source == t.is_internet_source \/ t.name = upstream
        ap_capable_other_wifi == Filter(wifi,
            {i \in R(wifi) : i.name # t.name /\ i.ap_support /\ ~i.in_monitor_mode})
        busy ==
            IF ~t.connected THEN [e |-> <<>>, w |-> <<>>]
            ELSE IF is_internet_source
            THEN IF t.supports_concurrency
                   THEN [e |-> <<>>,
                         w |-> IF t.concurrency_channels >= 2
                               THEN <<"concurrent_multi_channel">>
                               ELSE <<"concurrent_same_channel">>]
                 ELSE IF ~has_alternative_internet /\ Len(wifi) = 1
                   THEN OnlyWifi(force)
                 ELSE IF connected_ethernet # <<>>
                   THEN [e |-> <<>>, w |-> <<"disconnect_ethernet_continues">>]
                 ELSE IF connected_mobile # <<>>
                   THEN [e |-> <<>>, w |-> <<"disconnect_mobile_continues">>]
                 ELSE IF connected_tether # <<>>
                   THEN [e |-> <<>>, w |-> <<"disconnect_tether_continues">>]
                 ELSE IF ap_capable_other_wifi # <<>>
                   THEN [e |-> <<>>, w |-> <<"consider_other_wifi">>]
                 ELSE [e |-> <<>>, w |-> <<"will_be_disconnected">>]
            ELSE IF t.supports_concurrency
                   THEN [e |-> <<>>, w |-> <<"concurrent_maintained">>]
                 ELSE [e |-> <<>>, w |-> <<"will_be_disconnected">>]
    IN  [e |-> busy.e,
         w |-> busy.w \o (IF upstream = NoIface /\ ~has_alternative_internet
                          THEN <<"no_internet">> ELSE <<>>)]

RECURSIVE IssueWarnings(_)
\* 15.: every issue of the target but the AP one is a warning
IssueWarnings(issues) ==
    IF issues = <<>> THEN <<>>
    ELSE (IF Head(issues) = "No AP mode support" THEN <<>> ELSE <<"interface_issue">>)
         \o IssueWarnings(Tail(issues))

\* a plausible slip: the last lines return True whatever the error list holds
PreflightResult_always_ok(errors, warnings) ==
    [success |-> TRUE, errors |-> errors, warnings |-> warnings, ret |-> "end"]

\* return False, "\n".join(errors), warnings: an early return
PreflightFail(errors, warnings, at) ==
    [success |-> FALSE, errors |-> errors, warnings |-> warnings, ret |-> at]

\* the last lines: if errors: return False, ...; return True, None, warnings
PreflightResult(errors, warnings) ==
    IF errors # <<>>
    THEN [success |-> FALSE, errors |-> errors, warnings |-> warnings, ret |-> "end"]
    ELSE [success |-> TRUE, errors |-> <<>>, warnings |-> warnings, ret |-> "end"]

\* checks 7. to 15., on the target's record t
PreflightTarget(t, e1, w4, wifi, ethernet, mobile, tether, upstream, ssid, password, force, band, env) ==
    LET st == check_interface_state(env.link)
        \* 7. operational state
        e7 == e1 \o (IF ~st.ok THEN <<"interface_state">> ELSE <<>>)
        w7 == w4 \o (IF st.ok /\ st.msg THEN <<"interface_state">> ELSE <<>>)
        \* 8. AP mode
        e8 == e7 \o (IF ~t.ap_support THEN <<"no_ap_support">> ELSE <<>>)
        \* 9., 10.
        b  == BusyAnalysis(t, wifi, ethernet, mobile, tether, upstream, force)
        \* 11. 5 GHz
        e11 == e8 \o b.e \o (IF band = "a" /\ ~t.supports_5ghz
                             THEN <<"no_5ghz_support">> ELSE <<>>)
        \* 12., 13.
        e13 == e11 \o SsidErrors(ssid) \o PasswordErrors(password)
        w12 == w7 \o b.w \o (IF ssid.len > 0 /\ ssid.nonascii
                             THEN <<"ssid_non_ascii">> ELSE <<>>)
        \* 14., 15.
        w15 == w12 \o (IF env.others THEN <<"other_backend_running">> ELSE <<>>)
                   \o IssueWarnings(t.issues)
    IN  PreflightResult(e13, w15)

\* checks 1. to 6., on the lists of the inventory
PreflightLists(wifi, ethernet, mobile, tether, target_iface, upstream, ssid, password, force, band, env) ==
    LET \* 1. NetworkManager
        e1 == IF env.nm = "inactive" THEN <<"nm_not_running">> ELSE <<>>
        w1 == IF env.nm = "error" THEN <<"nm_unverified">> ELSE <<>>
        \* 4. monitor mode anywhere
        w4 == w1 \o (IF \E i \in Range(wifi) : i.in_monitor_mode
                     THEN <<"monitor_mode_ifaces">> ELSE <<>>)
        found == Filter(wifi, {i \in Range(wifi) : i.name = target_iface})
    IN  IF ~check_rfkill_status(env.rfkill)
          THEN PreflightFail(e1 \o <<"rfkill_blocked">>, w1, "rfkill")
        ELSE IF wifi = <<>>
          THEN PreflightFail(e1 \o <<"no_wifi_interfaces">>, w1, "no_wifi")
        ELSE IF target_iface = NoIface
          THEN PreflightFail(e1 \o <<"no_suitable_interface">>, w4, "no_target")
        ELSE IF found = <<>>
          THEN PreflightFail(e1 \o <<"interface_not_found">>, w4, "not_found")
        ELSE IF found[1].in_monitor_mode
          THEN PreflightFail(e1 \o <<"target_in_monitor_mode">>, w4, "monitor")
        ELSE PreflightTarget(found[1], e1, w4, wifi, ethernet, mobile, tether,
                             upstream, ssid, password, force, band, env)

PreflightOn(all, target_iface, upstream, ssid, password, force, band, env) ==
    PreflightLists(Filter(all, {i \in Range(all) : i.type = "wifi"}),
                   Filter(all, {i \in Range(all) : i.type = "ethernet"}),
                   Filter(all, {i \in Range(all) : i.is_mobile}),
                   Filter(all, {i \in Range(all) : i.is_tethered}),
                   target_iface, upstream, ssid, password, force, band, env)

preflight_checks(ds, rt, interface, ssid, password, exclude_vpn, force, band, env) ==
    PreflightOn(get_detailed_interfaces(ds, rt),
                IF interface # NoIface THEN interface
                ELSE get_smart_interface_selection(ds, rt, NoIface).hotspot_iface,
                get_upstream_interface(rt, exclude_vpn),
                ssid, password, force, band, env)


(***************************************************************************)
(* Rule Engine.  A chain is the list of its rules in evaluation order;     *)
(* iptables -I <chain> [1] puts a rule first, -A puts it last, -F empties  *)
(* the chain, -D removes the first rule equal to the one given.            *)
(***************************************************************************)
Rule(in, out, src, mac, match, target) ==
    [in |-> in, out |-> out, src |-> src, mac |-> mac, match |-> match, target |-> target]

MASQUERADE(upstream) == Rule("", upstream, "", "", "", "MASQUERADE")
MssClamp == Rule("", "", "", "", "tcp_syn", "TCPMSS")
RelatedEstablished == Rule("", "", "", "", "state_rel_est", "ACCEPT")

Insert(chain, r) == <<r>> \o chain
Append_(chain, r) == chain \o <<r>>

RECURSIVE Delete(_, _)
Delete(chain, r) ==
    IF chain = <<>> THEN <<>>
    ELSE IF Head(chain) = r THEN Tail(chain)
    ELSE <<Head(chain)>> \o Delete(Tail(chain), r)

NoRules == [nat_POSTROUTING |-> <<>>, filter_FORWARD |-> <<>>,
            mangle_FORWARD |-> <<>>, policy_FORWARD |-> "ACCEPT"]

RECURSIVE InsertMacRules(_, _, _, _, _)
\* for mac in MAC_LIST: iptables -I FORWARD 1 -i hs -o up -m mac --mac-source mac -j target
InsertMacRules(chain, hs, up, macs, target) ==
    IF macs = <<>> THEN chain
    ELSE InsertMacRules(Insert(chain, Rule(hs, up, "", Head(macs), "", target)),
                        hs, up, Tail(macs), target)

\* update_firewall from the insertion of the masquerade rule on, given the
\* chains as the three flushes left them
InstallRules(f, hotspot_iface, upstream_iface, mac_mode, mac_list) ==
    LET nat    == Insert(f.nat_POSTROUTING, MASQUERADE(upstream_iface))
        mangle == Insert(f.mangle_FORWARD, MssClamp)
        fwd2   == Insert(Insert(f.filter_FORWARD, RelatedEstablished),
                         Rule(upstream_iface, hotspot_iface, "", "", "", "ACCEPT"))
        fwd    == IF mac_mode = "allow"
                  THEN InsertMacRules(
                         Append_(fwd2, Rule(hotspot_iface, "", "", "", "", "DROP")),
                         hotspot_iface, upstream_iface, mac_list, "ACCEPT")
                  ELSE IF mac_mode = "block"
                  THEN InsertMacRules(
                         Insert(fwd2, Rule(hotspot_iface, upstream_iface, "", "", "", "ACCEPT")),
                         hotspot_iface, upstream_iface, mac_list, "DROP")
                  ELSE fwd2
    IN  [nat_POSTROUTING |-> nat, filter_FORWARD |-> fwd,
         mangle_FORWARD |-> mangle, policy_FORWARD |-> "ACCEPT"]

\* a plausible slip: the rules are added to the chains as they are
update_firewall_additive(f, hotspot_iface, upstream_iface, mac_mode, mac_list) ==
    InstallRules(f, hotspot_iface, upstream_iface, mac_mode, mac_list)

\* update_firewall: flush nat POSTROUTING, filter FORWARD and mangle FORWARD, reinstall
update_firewall(f, hotspot_iface, upstream_iface, mac_mode, mac_list) ==
    InstallRules([f EXCEPT !.nat_POSTROUTING = <<>>, !.filter_FORWARD = <<>>,
                           !.mangle_FORWARD = <<>>],
                 hotspot_iface, upstream_iface, mac_mode, mac_list)

\* setup_concurrent_ap_network, its iptables commands (all -A)
setup_concurrent_ap_network(f, iface, upstream_iface) ==
    [f EXCEPT
       !.nat_POSTROUTING = Append_(@,
            Rule("", upstream_iface, "192.168.45.0/24", "", "", "MASQUERADE")),
       !.filter_FORWARD = Append_(Append_(Append_(@,
            Rule(iface, upstream_iface, "", "", "", "ACCEPT")),
            Rule(upstream_iface, iface, "", "", "state_rel_est", "ACCEPT")),
            MssClamp)]

\* cleanup, its iptables commands
cleanup_firewall(f) ==
    [f EXCEPT !.nat_POSTROUTING = <<>>, !.mangle_FORWARD = <<>>,
              !.filter_FORWARD = Delete(@, RelatedEstablished)]

(***************************************************************************)
(* What the filter FORWARD chain does with a packet [in, out, mac, state]  *)
(* (state "NEW" or "ESTABLISHED"): the target of the first matching rule   *)
(* that ends the traversal, else the chain's policy.                       *)
(***************************************************************************)
Matches(r, pkt) ==
    /\ r.in = "" \/ r.in = pkt.in
    /\ r.out = "" \/ r.out = pkt.out
    /\ r.mac = "" \/ r.mac = pkt.mac
    /\ r.match = "state_rel_est" => pkt.state = "ESTABLISHED"

RECURSIVE Verdict(_, _, _)
Verdict(chain, policy, pkt) ==
    IF chain = <<>> THEN policy
    ELSE IF Matches(Head(chain), pkt) /\ Head(chain).target \in {"ACCEPT", "DROP"}
         THEN Head(chain).target
         ELSE Verdict(Tail(chain), policy, pkt)


(***************************************************************************)
(* The state.                                                              *)
(*                                                                         *)
(* The host:                                                               *)
(*   devs, routes      : the devices and the default-route table           *)
(*   tools_installed   : hostapd and dnsmasq are both installed            *)
(*   virt              : the virtual AP interfaces that exist              *)
(*   files             : which of the backend's files exist                *)
(*   helpers           : the helper daemons that run                       *)
(*   nm_profile        : the access-point profile CONNECTION_NAME exists   *)
(*   status_file       : the record in STATUS_FILE                         *)
(*   hostapd_config    : hw_mode and channel of the generated HOSTAPD_CONF *)
(*   fw                : the iptables chains the backend writes            *)
(* The backend process (main and the module's globals):                    *)
(*   pc, exit_code, args, pfenv (what the tools answer during preflight)   *)
(*   HOTSPOT_IFACE, CURRENT_UPSTREAM_IFACE, MAC_MODE, MAC_LIST,            *)
(*   EXCLUDE_VPN       : the globals main declares and assigns             *)
(*   USING_CONCURRENCY, VIRTUAL_AP_IFACE : main assigns these without      *)
(*                       declaring them global, so they are main's locals; *)
(*                       the module's globals of the same names keep their *)
(*                       initial values (GLOBAL_... below)                 *)
(*   actual_hotspot_iface, channel, idle_seconds, check_counter : locals   *)
(*   mode, decision    : the branch of the mode decision taken and the     *)
(*                       values it was taken on                            *)
(*   issued            : the commands issued so far that touch the         *)
(*                       physical radio or the connection manager          *)
(*   signalled         : a termination signal has run cleanup              *)
(* The pure-function checks:                                               *)
(*   pf_in, pf_out     : an input of preflight_checks and its result       *)
(*   fw_last           : the arguments of the last update_firewall         *)
(***************************************************************************)
VARIABLES devs, routes, tools_installed, virt, files, helpers, nm_profile,
          status_file, hostapd_config, fw,
          pc, exit_code, args, pfenv,
          HOTSPOT_IFACE, CURRENT_UPSTREAM_IFACE, MAC_MODE, MAC_LIST, EXCLUDE_VPN,
          USING_CONCURRENCY, VIRTUAL_AP_IFACE, actual_hotspot_iface, channel,
          idle_seconds, check_counter, mode, decision, issued, signalled,
          pf_in, pf_out, fw_last

host_vars == <<devs, routes, tools_installed, virt, files, helpers, nm_profile,
               status_file, hostapd_config>>
proc_vars == <<pc, exit_code, args, pfenv, HOTSPOT_IFACE, CURRENT_UPSTREAM_IFACE,
               EXCLUDE_VPN, USING_CONCURRENCY, VIRTUAL_AP_IFACE,
               actual_hotspot_iface, channel, idle_seconds, check_counter, mode,
               decision, issued, signalled>>
mac_vars  == <<MAC_MODE, MAC_LIST>>
pf_vars   == <<pf_in, pf_out>>
vars == <<host_vars, proc_vars, mac_vars, fw, pf_vars, fw_last>>

\* the module-level globals main() never assigns
GLOBAL_USING_CONCURRENCY == FALSE
GLOBAL_VIRTUAL_AP_IFACE == NoIface

PID_FILE == "hotspot_backend.pid"
HOSTAPD_CONF == "hotspot_hostapd.conf"
HOSTAPD_PID == "hotspot_hostapd.pid"
DNSMASQ_CONF == "hotspot_dnsmasq.conf"
DNSMASQ_PID == "hotspot_dnsmasq.pid"
DNSMASQ_LEASES == "hotspot_dnsmasq.leases"

NoStatus == [status |-> "", is_error |-> FALSE]
\* write_status
write_status(status, is_error) == [status |-> status, is_error |-> is_error]

NoDecision == [made |-> FALSE, supports_concurrency |-> FALSE, is_connected |-> FALSE,
               hostapd_available |-> FALSE, using_separate_adapter |-> FALSE,
               internet_iface |-> NoIface]

\* a plausible slip: the AP put on the physical interface itself
VirtualName_physical(physical_iface) == physical_iface

\* f"{physical_iface}_ap"
VirtualName(physical_iface) ==
    CASE physical_iface = "wlan0" -> "wlan0_ap"
      [] physical_iface = "wlan1" -> "wlan1_ap"
      [] OTHER -> "_ap"

(***************************************************************************)
(* Bounds and input sets.                                                  *)
(***************************************************************************)
MaxMacs == 2
MaxRoutes == 2
MACS == {"aa:01", "aa:02"}

Wlan0(state, conc, ch) ==
    Dev("wlan0", "wifi", state, IF state = "connected" THEN "HomeNet" ELSE "--",
        state = "connected", "pci", "yes", "yes", conc, FALSE, ch)
Wlan1 == Dev("wlan1", "wifi", "disconnected", "--", FALSE, "usb", "yes", "no", 0, FALSE, 0)
Eth0 == Dev("eth0", "ethernet", "connected", "Wired", TRUE, "pci", "no", "no", 0, FALSE, 0)
Tun0 == Dev("tun0", "tun", "connected", "tun0", TRUE, "none", "no", "no", 0, FALSE, 0)
\* a device whose device link resolves into /sys/devices/virtual
Veth0 == Dev("veth0", "ethernet", "connected", "veth0", TRUE, "virtual", "no", "no", 0, FALSE, 0)

Wlan0Variants ==
    { Wlan0("disconnected", c, 0) : c \in {0, 1} }
        \cup { Wlan0("connected", 0, 6) }
        \cup { Wlan0("connected", c, ch) : c \in {1, 2}, ch \in {6, 36} }

Hosts ==
    { <<w>> \o e \o t \o u :
        w \in Wlan0Variants, e \in {<<>>, <<Eth0>>},
        t \in {<<>>, <<Tun0>>, <<Veth0>>},
        u \in {<<>>, <<Wlan1>>} }

\* the devices a default route can name: those with an address
Routable(ds) == {ds[k].name : k \in {j \in 1..Len(ds) : ds[j].ip}}

NoRepeat(s) == \A i, j \in 1..Len(s) : i # j => s[i] # s[j]

RouteTables(ds) == {rt \in SeqsUpTo(Routable(ds), MaxRoutes) : NoRepeat(rt)}

\* the table of a host at rest: a route per device with an address, the VPN's
\* first, then the wired ones, then Wi-Fi
RoutesOf(ds) ==
    LET Pick(types) == Filter(ds, {d \in Range(ds) : d.ip /\ d.type \in types})
        s == Pick({"tun"}) \o Pick({"ethernet"}) \o Pick({"wifi"})
    IN  [k \in 1..(IF Len(s) < MaxRoutes THEN Len(s) ELSE MaxRoutes) |-> s[k].name]

GoodEnv == [nm |-> "active", rfkill |-> "ok", link |-> "up", others |-> FALSE]

ArgSet ==
    [ interface : {NoIface, "wlan0"},
      internet_interface : {NoIface},
      ssid : {[len |-> 11, nonascii |-> FALSE]},
      password : {11},
      band : {"bg", "a"},
      mac_mode : {"block", "allow"},
      block : {<<"aa:01">>},
      allow : {<<"aa:01">>},
      auto_off : {0},
      exclude_vpn : BOOLEAN,
      force_single_interface : BOOLEAN,
      is_root : {TRUE} ]

IdleArgs == [interface |-> NoIface, internet_interface |-> NoIface,
             ssid |-> [len |-> 0, nonascii |-> FALSE], password |-> 0, band |-> "bg",
             mac_mode |-> "block", block |-> <<>>, allow |-> <<>>, auto_off |-> 0,
             exclude_vpn |-> FALSE, force_single_interface |-> FALSE, is_root |-> TRUE]

NoPfIn == [used |-> FALSE]
NoPfOut == [done |-> FALSE, success |-> FALSE, errors |-> <<>>, warnings |-> <<>>,
            ret |-> ""]
NoConfig == [written |-> FALSE, hw_mode |-> "", channel |-> 0]
NoFwLast == [applied |-> FALSE]

\* the process before main() runs, on a host with nothing of an earlier run
ProcAtStart ==
    /\ pc = "start" /\ exit_code = -1
    /\ HOTSPOT_IFACE = NoIface /\ CURRENT_UPSTREAM_IFACE = NoIface
    /\ EXCLUDE_VPN = FALSE
    /\ USING_CONCURRENCY = FALSE /\ VIRTUAL_AP_IFACE = NoIface
    /\ actual_hotspot_iface = NoIface /\ channel = 0
    /\ idle_seconds = 0 /\ check_counter = 0
    /\ mode = "none" /\ decision = NoDecision /\ issued = {} /\ signalled = FALSE

\* the same, the tools of the preflight checks answering that all is well
ProcIdle == pfenv = GoodEnv /\ ProcAtStart

HostIdle ==
    /\ virt = {} /\ files = {} /\ helpers = {} /\ nm_profile = FALSE
    /\ status_file = NoStatus /\ hostapd_config = NoConfig

Init ==
    /\ devs \in Hosts
    /\ routes = RoutesOf(devs)
    /\ tools_installed \in BOOLEAN
    /\ HostIdle
    /\ fw = NoRules
    /\ args \in ArgSet
    /\ ProcIdle
    /\ MAC_MODE = "block" /\ MAC_LIST = <<>>
    /\ pf_in = NoPfIn /\ pf_out = NoPfOut /\ fw_last = NoFwLast


(***************************************************************************)
(* What the commands do to the host.                                       *)
(***************************************************************************)
\* nmcli device disconnect <iface>: the device leaves its network
Disconnected(ds, iface) ==
    [k \in 1..Len(ds) |->
        IF ds[k].name = iface
        THEN [ds[k] EXCEPT !.state = "disconnected", !.connection = "--", !.ip = FALSE]
        ELSE ds[k]]

\* nmcli con up CONNECTION_NAME ifname <iface>: the device runs the access point
Activated(ds, iface) ==
    [k \in 1..Len(ds) |->
        IF ds[k].name = iface
        THEN [ds[k] EXCEPT !.state = "connected", !.connection = CONNECTION_NAME,
                           !.ip = TRUE]
        ELSE ds[k]]

\* nmcli con delete CONNECTION_NAME: a device that runs the profile leaves it
ProfileDeleted(ds) ==
    [k \in 1..Len(ds) |->
        IF ds[k].connection = CONNECTION_NAME
        THEN [ds[k] EXCEPT !.state = "disconnected", !.connection = "--", !.ip = FALSE]
        ELSE ds[k]]

\* the default routes left when devices have lost their address
RoutesLeft(rt, ds) == Filter(rt, Routable(ds))

\* stop_concurrent_mode, on the files
stop_concurrent_mode(fs) ==
    fs \ {HOSTAPD_PID, DNSMASQ_PID, HOSTAPD_CONF, DNSMASQ_CONF, DNSMASQ_LEASES}

\* a plausible slip: the interface is looked up but never deleted
delete_virtual_ap_interface_kept(vs, physical_iface) == vs

\* delete_virtual_ap_interface
delete_virtual_ap_interface(vs, physical_iface) == vs \ {VirtualName(physical_iface)}

\* generate_hostapd_config: the hardware mode written for a band and a channel
generate_hostapd_config(ch, band) ==
    [written |-> TRUE, hw_mode |-> IF band = "a" \/ ch > 14 THEN "a" ELSE "g",
     channel |-> ch]

\* get_best_channel
get_best_channel(band) == IF band = "a" THEN 36 ELSE 6

\* what "iw dev <iface> info" gives get_wifi_channel: the devices with their
\* channel, or no channel line when the tool fails or runs into its timeout
IwDevInfo(ds) == {ds, [k \in DOMAIN ds |-> [ds[k] EXCEPT !.channel = 0]]}

\* get_wifi_channel: the channel iw reports, 6 when it reports none
get_wifi_channel(ds, iface) ==
    LET d == Filter(ds, {x \in Range(ds) : x.name = iface})
    IN  IF d # <<>> /\ d[1].channel > 0 THEN d[1].channel ELSE 6

\* sys.exit(code)
Exit(code) == pc' = "exited" /\ exit_code' = code

HandlersInstalled == pc \notin {"start", "preflight", "write_pid", "exited"}

\* cleanup, step 4: the virtual interface it deletes
cleanup_virtual(vs, hs) ==
    IF GLOBAL_USING_CONCURRENCY /\ GLOBAL_VIRTUAL_AP_IFACE # NoIface
    THEN vs \ {GLOBAL_VIRTUAL_AP_IFACE}
    ELSE IF hs # NoIface THEN delete_virtual_ap_interface(vs, hs)
    ELSE vs

\* main --stop, step 5: its iptables commands
stop_firewall(f) ==
    [f EXCEPT !.nat_POSTROUTING = <<>>,
              !.filter_FORWARD = Delete(Delete(@, MssClamp), RelatedEstablished)]

\* main --stop, step 6: <iface>_ap is deleted for every Wi-Fi interface
stop_virtual(vs, ds) == vs \ {VirtualName(n) : n \in Range(get_wifi_interfaces(ds, <<>>))}

(***************************************************************************)
(* cleanup(): the signal handler, also called by main.  f, hs and fs are   *)
(* the chains, HOTSPOT_IFACE and the files as the caller leaves them.      *)
(* The globals USING_CONCURRENCY and VIRTUAL_AP_IFACE it tests are the     *)
(* module's, not main's locals.                                            *)
(***************************************************************************)
Cleanup(f, hs, fs) ==
    /\ helpers' = {}
    /\ fw' = cleanup_firewall(f)
    /\ nm_profile' = FALSE
    /\ devs' = ProfileDeleted(devs)
    /\ routes' = RoutesLeft(routes, ProfileDeleted(devs))
    /\ virt' = cleanup_virtual(virt, hs)
    /\ files' = stop_concurrent_mode(fs) \ {PID_FILE}
    /\ Exit(0)

(***************************************************************************)
(* main(), step by step.                                                   *)
(***************************************************************************)
\* subprocess.call(["id", "-u"], ...): the exit status of id, which prints the
\* user's id and ends with status 0 whoever the user is
id_status(is_root) == 0

\* what a command that needs privilege leaves: iptables and iw fail without it,
\* and their failures are not looked at (check=False)
Privileged(done, undone) == IF args.is_root THEN done ELSE undone

\* nmcli read at the selection: the devices, or nothing when nmcli prints
\* nothing (NetworkManager has stopped or the adapter is gone since the
\* preflight checks)
InventoryRead(ds) == {ds, <<>>}

\* the privilege check and the argument handling
Start ==
    /\ pc = "start"
    /\ IF id_status(args.is_root) # 0
       THEN /\ Exit(1)
            /\ UNCHANGED <<MAC_MODE, MAC_LIST, EXCLUDE_VPN>>
       ELSE /\ MAC_MODE' = args.mac_mode
            /\ MAC_LIST' = IF args.mac_mode = "allow" /\ args.allow # <<>> THEN args.allow
                           ELSE IF args.mac_mode = "block" /\ args.block # <<>>
                                THEN args.block ELSE MAC_LIST
            /\ EXCLUDE_VPN' = args.exclude_vpn
            /\ pc' = "preflight" /\ UNCHANGED exit_code
    /\ UNCHANGED <<host_vars, fw, pf_in, pf_out, fw_last, args, pfenv, HOTSPOT_IFACE,
                   CURRENT_UPSTREAM_IFACE, USING_CONCURRENCY, VIRTUAL_AP_IFACE,
                   actual_hotspot_iface, channel, idle_seconds, check_counter, mode,
                   decision, issued, signalled>>

\* PRE-FLIGHT VALIDATION
Preflight ==
    /\ pc = "preflight"
    /\ LET r == preflight_checks(devs, routes, args.interface, args.ssid,
                                 args.password, EXCLUDE_VPN,
                                 args.force_single_interface, args.band, pfenv)
       IN  /\ pf_out' = [done |-> TRUE, success |-> r.success, errors |-> r.errors,
                         warnings |-> r.warnings, ret |-> r.ret]
           /\ IF ~r.success
              THEN status_file' = write_status("error", TRUE) /\ Exit(1)
              ELSE pc' = "write_pid" /\ UNCHANGED <<status_file, exit_code>>
    /\ UNCHANGED <<devs, routes, tools_installed, virt, files, helpers, nm_profile,
                   hostapd_config, fw, pf_in, fw_last, mac_vars, args, pfenv,
                   HOTSPOT_IFACE, CURRENT_UPSTREAM_IFACE, EXCLUDE_VPN,
                   USING_CONCURRENCY, VIRTUAL_AP_IFACE, actual_hotspot_iface, channel,
                   idle_seconds, check_counter, mode, decision, issued, signalled>>

\* the PID file is written and the signal handlers are installed
WritePid ==
    /\ pc = "write_pid"
    /\ files' = files \cup {PID_FILE}
    /\ pc' = "select"
    /\ UNCHANGED <<devs, routes, tools_installed, virt, helpers, nm_profile,
                   status_file, hostapd_config, fw, pf_vars, fw_last, mac_vars,
                   exit_code, args, pfenv, HOTSPOT_IFACE, CURRENT_UPSTREAM_IFACE,
                   EXCLUDE_VPN, USING_CONCURRENCY, VIRTUAL_AP_IFACE,
                   actual_hotspot_iface, channel, idle_seconds, check_counter, mode,
                   decision, issued, signalled>>

\* SMART SELECTION LOGIC: the hotspot interface
Select ==
    /\ pc = "select"
    /\ \E seen \in InventoryRead(devs) :
       LET h == IF args.interface # NoIface THEN args.interface
                ELSE get_smart_interface(seen, routes, EXCLUDE_VPN,
                                         args.internet_interface)
       IN  /\ HOTSPOT_IFACE' = h
           /\ IF h = NoIface
              THEN Cleanup(fw, h, files)
              ELSE /\ pc' = "decide"
                   /\ UNCHANGED <<devs, routes, virt, files, helpers, nm_profile, fw,
                                  exit_code>>
    /\ UNCHANGED <<tools_installed, status_file, hostapd_config, pf_vars, fw_last,
                   mac_vars, args, pfenv, CURRENT_UPSTREAM_IFACE, EXCLUDE_VPN,
                   USING_CONCURRENCY, VIRTUAL_AP_IFACE, actual_hotspot_iface, channel,
                   idle_seconds, check_counter, mode, decision, issued, signalled>>


(***************************************************************************)
(* The mode decision: the if / elif chain of main().                       *)
(***************************************************************************)
\* a plausible slip: the dual-adapter test put before the concurrency test
DecideMode_dual_first(supports_concurrency, is_connected, hostapd_available, using_separate_adapter) ==
    IF using_separate_adapter THEN "DualAdapter"
    ELSE IF supports_concurrency /\ is_connected /\ hostapd_available THEN "Concurrent"
    ELSE IF is_connected /\ ~hostapd_available THEN "RefusedNoHelpers"
    ELSE IF is_connected /\ ~supports_concurrency THEN "RefusedNoConcurrency"
    ELSE "Managed"

\* a plausible slip: the last refusal left out, the radio handed to the standard mode
DecideMode_no_refusal(supports_concurrency, is_connected, hostapd_available, using_separate_adapter) ==
    IF supports_concurrency /\ is_connected /\ hostapd_available THEN "Concurrent"
    ELSE IF using_separate_adapter THEN "DualAdapter"
    ELSE IF is_connected /\ ~hostapd_available THEN "RefusedNoHelpers"
    ELSE "Managed"

DecideMode(supports_concurrency, is_connected, hostapd_available, using_separate_adapter) ==
    IF supports_concurrency /\ is_connected /\ hostapd_available THEN "Concurrent"
    ELSE IF using_separate_adapter THEN "DualAdapter"
    ELSE IF is_connected /\ ~hostapd_available THEN "RefusedNoHelpers"
    ELSE IF is_connected /\ ~supports_concurrency THEN "RefusedNoConcurrency"
    ELSE "Managed"

\* the values the decision is taken on
\* the inventory record of the hotspot interface, as a list of at most one
TargetInfo(all, hotspot_iface) == Filter(all, {i \in Range(all) : i.name = hotspot_iface})

\* supports_concurrency, is_connected, hostapd_available, using_separate_adapter
DecisionOf(t, internet_iface) ==
    [made |-> TRUE,
     supports_concurrency |-> t # <<>> /\ t[1].supports_concurrency,
     is_connected |-> t # <<>> /\ t[1].connected,
     hostapd_available |-> tools_installed,
     using_separate_adapter |->
         /\ internet_iface # NoIface /\ internet_iface # HOTSPOT_IFACE
         /\ is_physical_interface(devs, internet_iface),
     internet_iface |-> internet_iface]

DecisionInputs ==
    DecisionOf(TargetInfo(get_detailed_interfaces(devs, routes), HOTSPOT_IFACE),
               get_upstream_interface(routes, EXCLUDE_VPN))

\* the channel of Concurrent mode
ChannelOf(t, info) ==
    IF t # <<>> /\ t[1].concurrency_channels >= 2 THEN get_best_channel(args.band)
    ELSE get_wifi_channel(info, HOTSPOT_IFACE)

ConcurrentChannel(info) ==
    ChannelOf(TargetInfo(get_detailed_interfaces(devs, routes), HOTSPOT_IFACE), info)

\* the branch taken on decision d, mode m and Concurrent channel ch
DecideBranch(d, m, ch) ==
    /\ decision' = d
    /\ CASE m = "Concurrent" ->
            /\ mode' = "Concurrent"
            /\ channel' = ch
            \* check_5ghz_ap_allowed: a NO-IR channel gets the regulatory attempt
            /\ \E no_ir \in IF ch > 14 THEN BOOLEAN ELSE {FALSE} :
                 IF no_ir
                 THEN /\ issued' = issued \cup {"reg_set"}
                      /\ status_file' = write_status("warning", FALSE)
                 ELSE UNCHANGED <<issued, status_file>>
            /\ pc' = "create_virtual"
            /\ UNCHANGED <<files, exit_code, actual_hotspot_iface, USING_CONCURRENCY>>
         [] m \in {"DualAdapter", "Managed"} ->
            /\ mode' = m
            /\ actual_hotspot_iface' = HOTSPOT_IFACE
            /\ USING_CONCURRENCY' = FALSE
            /\ pc' = "nm_prepare"
            /\ UNCHANGED <<files, exit_code, channel, issued, status_file>>
         [] OTHER ->
            /\ mode' = "Refused"
            /\ status_file' = write_status("error", TRUE)
            /\ files' = files \ {PID_FILE}
            /\ Exit(1)
            /\ UNCHANGED <<channel, issued, actual_hotspot_iface, USING_CONCURRENCY>>

DecideOn(d) ==
    \E info \in IwDevInfo(devs) :
        DecideBranch(d, DecideMode(d.supports_concurrency, d.is_connected,
                                   d.hostapd_available, d.using_separate_adapter),
                     ConcurrentChannel(info))

Decide ==
    /\ pc = "decide"
    /\ DecideOn(DecisionInputs)
    /\ UNCHANGED <<devs, routes, tools_installed, virt, helpers, nm_profile,
                   hostapd_config, fw, pf_vars, fw_last, mac_vars, args, pfenv,
                   HOTSPOT_IFACE, CURRENT_UPSTREAM_IFACE, EXCLUDE_VPN,
                   VIRTUAL_AP_IFACE, idle_seconds, check_counter, signalled>>

(***************************************************************************)
(* STA+AP CONCURRENT MODE.                                                 *)
(***************************************************************************)
\* create_virtual_ap_interface: an interface left by an earlier run is removed
\* first; iw adds the interface or fails; the interface is there afterwards or not
CreateVirtual ==
    /\ pc = "create_virtual"
    /\ \E outcome \in {"created", "add_fails", "not_there"} :
        /\ outcome = "created" => args.is_root
        /\ IF outcome = "created"
          THEN /\ virt' = virt \cup {VirtualName(HOTSPOT_IFACE)}
               /\ VIRTUAL_AP_IFACE' = VirtualName(HOTSPOT_IFACE)
               /\ USING_CONCURRENCY' = TRUE
               /\ actual_hotspot_iface' = VirtualName(HOTSPOT_IFACE)
               /\ pc' = "concurrent_setup"
               /\ UNCHANGED <<status_file, files, exit_code>>
          ELSE /\ virt' = delete_virtual_ap_interface(virt, HOTSPOT_IFACE)
               /\ status_file' = write_status("error", TRUE)
               /\ files' = files \ {PID_FILE}
               /\ Exit(1)
               /\ UNCHANGED <<VIRTUAL_AP_IFACE, USING_CONCURRENCY, actual_hotspot_iface>>
    /\ UNCHANGED <<devs, routes, tools_installed, helpers, nm_profile, hostapd_config,
                   fw, pf_vars, fw_last, mac_vars, args, pfenv, HOTSPOT_IFACE,
                   CURRENT_UPSTREAM_IFACE, EXCLUDE_VPN, channel, idle_seconds,
                   check_counter, mode, decision, issued, signalled>>

\* the virtual interface is taken from NetworkManager, the configurations are
\* generated, setup_concurrent_ap_network runs
ConcurrentSetup ==
    /\ pc = "concurrent_setup"
    /\ LET upstream_candidate == get_upstream_interface(routes, args.exclude_vpn)
           upstream == IF upstream_candidate # NoIface THEN upstream_candidate
                       ELSE HOTSPOT_IFACE
       IN  /\ issued' = issued \cup {"unmanage_virtual"}
           /\ hostapd_config' = generate_hostapd_config(channel, args.band)
           /\ files' = files \cup {HOSTAPD_CONF, DNSMASQ_CONF}
           /\ fw' = setup_concurrent_ap_network(fw, actual_hotspot_iface, upstream)
    /\ pc' = "start_hostapd"
    /\ UNCHANGED <<devs, routes, tools_installed, virt, helpers, nm_profile,
                   status_file, pf_vars, fw_last, mac_vars, exit_code, args, pfenv,
                   HOTSPOT_IFACE, CURRENT_UPSTREAM_IFACE, EXCLUDE_VPN,
                   USING_CONCURRENCY, VIRTUAL_AP_IFACE, actual_hotspot_iface, channel,
                   idle_seconds, check_counter, mode, decision, signalled>>

\* start_hostapd and what main does with its answer.  hostapd either is up
\* within the second start_hostapd waits, or it is not; then the diagnostic
\* run "hostapd -d", bounded by timeout=3, either ends in time (start_hostapd
\* returns False) or does not (subprocess.TimeoutExpired, which nothing
\* catches: the interpreter ends with status 1)
StartHostapd ==
    /\ pc = "start_hostapd"
    /\ \E outcome \in {"started", "failed", "diagnostic_timeout"} :
        CASE outcome = "started" ->
               /\ files' = files \cup {HOSTAPD_PID}
               /\ helpers' = helpers \cup {"hostapd"}
               /\ pc' = "start_dnsmasq"
               /\ UNCHANGED <<virt, status_file, exit_code>>
          [] outcome = "failed" ->
               /\ files' = stop_concurrent_mode(files) \ {PID_FILE}
               /\ helpers' = {}
               /\ virt' = delete_virtual_ap_interface(virt, HOTSPOT_IFACE)
               /\ status_file' = write_status("error", TRUE)
               /\ Exit(1)
          [] outcome = "diagnostic_timeout" ->
               /\ Exit(1)
               /\ UNCHANGED <<files, helpers, virt, status_file>>
    /\ UNCHANGED <<devs, routes, tools_installed, nm_profile, hostapd_config, fw,
                   pf_vars, fw_last, mac_vars, args, pfenv, HOTSPOT_IFACE,
                   CURRENT_UPSTREAM_IFACE, EXCLUDE_VPN, USING_CONCURRENCY,
                   VIRTUAL_AP_IFACE, actual_hotspot_iface, channel, idle_seconds,
                   check_counter, mode, decision, issued, signalled>>

\* start_dnsmasq (its answer is not looked at), then the session is active
StartDnsmasq ==
    /\ pc = "start_dnsmasq"
    /\ \E ok \in BOOLEAN :
         /\ files' = files \cup {DNSMASQ_LEASES} \cup (IF ok THEN {DNSMASQ_PID} ELSE {})
         /\ helpers' = helpers \cup (IF ok THEN {"dnsmasq"} ELSE {})
    /\ status_file' = write_status("active", FALSE)
    /\ pc' = "monitor"
    /\ UNCHANGED <<devs, routes, tools_installed, virt, nm_profile, hostapd_config,
                   fw, pf_vars, fw_last, mac_vars, exit_code, args, pfenv,
                   HOTSPOT_IFACE, CURRENT_UPSTREAM_IFACE, EXCLUDE_VPN,
                   USING_CONCURRENCY, VIRTUAL_AP_IFACE, actual_hotspot_iface, channel,
                   idle_seconds, check_counter, mode, decision, issued, signalled>>


(***************************************************************************)
(* The standard startup (Managed and Dual-Adapter) through NetworkManager. *)
(* A run_command with check=True whose command fails calls sys.exit(1) in  *)
(* run_command itself; SystemExit is no Exception, so the except clause    *)
(* around the sequence does not see it and cleanup() does not run.         *)
(***************************************************************************)
\* how nmcli con modify / con up on CONNECTION_NAME can end: they fail when
\* the profile does not exist
NmAnswers(profile) == IF profile THEN BOOLEAN ELSE {FALSE}

\* ensure_wifi_active, nmcli device disconnect, nmcli con delete
NmPrepare ==
    /\ pc = "nm_prepare"
    /\ \E query_ok \in BOOLEAN :
        IF query_ok
        THEN /\ issued' = issued \cup {"radio_on", "disconnect", "profile_delete"}
             /\ devs' = Disconnected(devs, HOTSPOT_IFACE)
             /\ routes' = RoutesLeft(routes, Disconnected(devs, HOTSPOT_IFACE))
             /\ nm_profile' = FALSE
             /\ pc' = "nm_add"
             /\ UNCHANGED exit_code
        ELSE /\ issued' = issued \cup {"radio_on"}
             /\ Exit(1)
             /\ UNCHANGED <<devs, routes, nm_profile>>
    /\ UNCHANGED <<tools_installed, virt, files, helpers, status_file,
                   hostapd_config, fw, pf_vars, fw_last, mac_vars, args, pfenv,
                   HOTSPOT_IFACE, CURRENT_UPSTREAM_IFACE, EXCLUDE_VPN,
                   USING_CONCURRENCY, VIRTUAL_AP_IFACE, actual_hotspot_iface, channel,
                   idle_seconds, check_counter, mode, decision, signalled>>

\* nmcli con add ... mode ap
NmAdd ==
    /\ pc = "nm_add"
    /\ \E ok \in BOOLEAN :
        IF ok
        THEN /\ nm_profile' = TRUE
             /\ issued' = issued \cup {"profile_add"}
             /\ pc' = "nm_modify"
             /\ UNCHANGED exit_code
        ELSE Exit(1) /\ UNCHANGED <<nm_profile, issued>>
    /\ UNCHANGED <<devs, routes, tools_installed, virt, files, helpers, status_file,
                   hostapd_config, fw, pf_vars, fw_last, mac_vars, args, pfenv,
                   HOTSPOT_IFACE, CURRENT_UPSTREAM_IFACE, EXCLUDE_VPN,
                   USING_CONCURRENCY, VIRTUAL_AP_IFACE, actual_hotspot_iface, channel,
                   idle_seconds, check_counter, mode, decision, signalled>>

\* the nmcli con modify commands
NmModify ==
    /\ pc = "nm_modify"
    /\ \E ok \in NmAnswers(nm_profile) :
        IF ok THEN pc' = "nm_up" /\ UNCHANGED exit_code ELSE Exit(1)
    /\ UNCHANGED <<host_vars, fw, pf_vars, fw_last, mac_vars, args, pfenv,
                   HOTSPOT_IFACE, CURRENT_UPSTREAM_IFACE, EXCLUDE_VPN,
                   USING_CONCURRENCY, VIRTUAL_AP_IFACE, actual_hotspot_iface, channel,
                   idle_seconds, check_counter, mode, decision, issued, signalled>>

\* nmcli con up, the MSS rule appended to filter FORWARD, the session is active
NmUp ==
    /\ pc = "nm_up"
    /\ \E ok \in NmAnswers(nm_profile) :
        IF ok
        THEN /\ devs' = Activated(devs, actual_hotspot_iface)
             /\ issued' = issued \cup {"profile_up"}
             /\ fw' = Privileged([fw EXCEPT !.filter_FORWARD = Append_(@, MssClamp)], fw)
             /\ status_file' = write_status("active", FALSE)
             /\ pc' = "monitor"
             /\ UNCHANGED exit_code
        ELSE Exit(1) /\ UNCHANGED <<devs, issued, fw, status_file>>
    /\ UNCHANGED <<routes, tools_installed, virt, files, helpers, nm_profile,
                   hostapd_config, pf_vars, fw_last, mac_vars, args, pfenv,
                   HOTSPOT_IFACE, CURRENT_UPSTREAM_IFACE, EXCLUDE_VPN,
                   USING_CONCURRENCY, VIRTUAL_AP_IFACE, actual_hotspot_iface, channel,
                   idle_seconds, check_counter, mode, decision, signalled>>

(***************************************************************************)
(* MONITORING LOOP: one iteration.                                         *)
(***************************************************************************)
\* the upstream an iteration resolves
NewUpstream == get_upstream_interface(routes, EXCLUDE_VPN)

\* a plausible slip: the comparison with the AP interface is left out
UpstreamChanged_any_iface ==
    /\ NewUpstream # NoIface
    /\ NewUpstream # CURRENT_UPSTREAM_IFACE

\* the iteration reprograms or records the upstream
UpstreamChanged ==
    /\ NewUpstream # NoIface
    /\ NewUpstream # CURRENT_UPSTREAM_IFACE
    /\ NewUpstream # actual_hotspot_iface

\* a plausible slip: the accumulator counts the samples, not their seconds
IdleAfter_by_one(idle, clients) == IF clients = 0 THEN idle + 1 ELSE 0

\* a plausible slip: a sample with clients leaves the accumulator as it is
IdleAfter_no_reset(idle, clients) == IF clients = 0 THEN idle + 5 ELSE idle

\* if clients == 0: idle_seconds += 5  else: idle_seconds = 0
IdleAfter(idle, clients) == IF clients = 0 THEN idle + 5 ELSE 0

MonitorIteration ==
    /\ pc = "monitor"
    /\ LET f == IF UpstreamChanged /\ ~USING_CONCURRENCY
                THEN Privileged(update_firewall(fw, actual_hotspot_iface, NewUpstream,
                                                MAC_MODE, MAC_LIST), fw)
                ELSE fw
       IN  /\ CURRENT_UPSTREAM_IFACE' =
                  IF UpstreamChanged THEN NewUpstream ELSE CURRENT_UPSTREAM_IFACE
           /\ IF args.auto_off > 0
              THEN IF check_counter + 1 >= 5
                   THEN \E clients \in {0, 1} :
                          LET idle == IdleAfter(idle_seconds, clients)
                          IN  /\ check_counter' = 0
                              /\ idle_seconds' = idle
                              /\ IF idle >= args.auto_off * 60
                                 THEN Cleanup(f, HOTSPOT_IFACE, files)
                                 ELSE /\ fw' = f
                                      /\ UNCHANGED <<devs, routes, virt, files, helpers,
                                                     nm_profile, pc, exit_code>>
                   ELSE /\ check_counter' = check_counter + 1
                        /\ fw' = f
                        /\ UNCHANGED <<idle_seconds, devs, routes, virt, files, helpers,
                                       nm_profile, pc, exit_code>>
              ELSE /\ fw' = f
                   /\ UNCHANGED <<check_counter, idle_seconds, devs, routes, virt,
                                  files, helpers, nm_profile, pc, exit_code>>
    /\ UNCHANGED <<tools_installed, status_file, hostapd_config, pf_vars, fw_last,
                   mac_vars, args, pfenv, HOTSPOT_IFACE, EXCLUDE_VPN,
                   USING_CONCURRENCY, VIRTUAL_AP_IFACE, actual_hotspot_iface, channel,
                   mode, decision, issued, signalled>>

(***************************************************************************)
(* The environment.                                                        *)
(***************************************************************************)
\* while the session is active the default routes change (a VPN comes up or
\* goes down, a cable is pulled)
RouteChange ==
    /\ pc = "monitor"
    /\ \E rt \in RouteTables(devs) : rt # routes /\ routes' = rt
    /\ UNCHANGED <<devs, tools_installed, virt, files, helpers, nm_profile,
                   status_file, hostapd_config, fw, pf_vars, fw_last, mac_vars,
                   proc_vars>>

\* SIGINT or SIGTERM once the handlers are installed: cleanup() runs
Signal ==
    /\ HandlersInstalled
    /\ signalled' = TRUE
    /\ Cleanup(fw, HOTSPOT_IFACE, files)
    /\ UNCHANGED <<tools_installed, status_file, hostapd_config, pf_vars, fw_last,
                   mac_vars, args, pfenv, HOTSPOT_IFACE, CURRENT_UPSTREAM_IFACE,
                   EXCLUDE_VPN, USING_CONCURRENCY, VIRTUAL_AP_IFACE,
                   actual_hotspot_iface, channel, idle_seconds, check_counter, mode,
                   decision, issued>>

(***************************************************************************)
(* A second invocation with --stop while the session runs with its         *)
(* handlers installed: it sends SIGTERM to the PID of the PID file, waits  *)
(* for the process to end (cleanup() runs there), then runs its own        *)
(* teardown steps 3 to 7 and exits with 0.                                 *)
(***************************************************************************)
StopCommand ==
    /\ HandlersInstalled
    /\ signalled' = TRUE
    /\ helpers' = {}
    /\ fw' = stop_firewall(cleanup_firewall(fw))
    /\ nm_profile' = FALSE
    /\ devs' = ProfileDeleted(devs)
    /\ routes' = RoutesLeft(routes, ProfileDeleted(devs))
    /\ virt' = stop_virtual(cleanup_virtual(virt, HOTSPOT_IFACE), devs)
    /\ files' = stop_concurrent_mode(stop_concurrent_mode(files) \ {PID_FILE}) \ {PID_FILE}
    /\ Exit(0)
    /\ UNCHANGED <<tools_installed, status_file, hostapd_config, pf_vars, fw_last,
                   mac_vars, args, pfenv, HOTSPOT_IFACE, CURRENT_UPSTREAM_IFACE,
                   EXCLUDE_VPN, USING_CONCURRENCY, VIRTUAL_AP_IFACE,
                   actual_hotspot_iface, channel, idle_seconds, check_counter, mode,
                   decision, issued>>

Next ==
    \/ Start \/ Preflight \/ WritePid \/ Select \/ Decide
    \/ CreateVirtual \/ ConcurrentSetup \/ StartHostapd \/ StartDnsmasq
    \/ NmPrepare \/ NmAdd \/ NmModify \/ NmUp
    \/ MonitorIteration \/ RouteChange \/ Signal \/ StopCommand

Spec == Init /\ [][Next]_vars


(***************************************************************************)
(* preflight_checks on its own: an input is drawn, the function is applied.*)
(***************************************************************************)
Wwan0 == Dev("wwan0", "gsm", "connected", "Mobile", TRUE, "usb", "no", "no", 0, FALSE, 0)
Usb0 == Dev("usb0", "ethernet", "connected", "Phone", TRUE, "usb", "no", "no", 0, FALSE, 0)
Eth0Down == Dev("eth0", "ethernet", "unavailable", "--", FALSE, "pci", "no", "no", 0, FALSE, 0)

\* the radio wlan0 in the conditions the checks tell apart
PfWlan0 ==
    { Dev("wlan0", "wifi", st, IF st = "connected" THEN "HomeNet" ELSE "--",
          st = "connected", "pci", ap, "yes", conc, FALSE,
          IF st = "connected" THEN 6 ELSE 0) :
        st \in {"connected", "disconnected"}, ap \in {"yes", "no"}, conc \in {0, 1} }
      \cup { Dev("wlan0", "wifi", "connected", "HomeNet", TRUE, "pci", "yes", "no", 0,
                 FALSE, 6),
             Dev("wlan0", "wifi", "disconnected", "--", FALSE, "pci", "yes", "yes", 0,
                 TRUE, 0) }

PfHosts ==
    { <<w>> \o x : w \in PfWlan0,
                   x \in {<<>>, <<Eth0>>, <<Eth0Down>>, <<Wwan0>>, <<Usb0>>, <<Wlan1>>} }
      \cup {<<Eth0>>}

\* an SSID and a password, as lengths
PfNames ==
    { [ssid |-> [len |-> 11, nonascii |-> FALSE], password |-> n] :
          n \in {0, 7, 8, 11, 63, 64} }
      \cup { [ssid |-> [len |-> 33, nonascii |-> TRUE], password |-> 11],
             [ssid |-> [len |-> 0, nonascii |-> FALSE], password |-> 11] }

PfEnvs ==
    { GoodEnv, [GoodEnv EXCEPT !.nm = "inactive"], [GoodEnv EXCEPT !.nm = "error"],
      [GoodEnv EXCEPT !.rfkill = "hard"], [GoodEnv EXCEPT !.link = "missing"],
      [GoodEnv EXCEPT !.link = "down_stays"], [GoodEnv EXCEPT !.others = TRUE] }

PfInputs ==
    { [used |-> TRUE, devs |-> ds, routes |-> rt, interface |-> i, ssid |-> n.ssid,
       password |-> n.password, exclude_vpn |-> FALSE, force_single_interface |-> f,
       band |-> b, env |-> e] :
        ds \in PfHosts, rt \in {<<>>, <<"wlan0">>}, i \in {NoIface, "wlan0", "wlan1"},
        n \in PfNames, f \in BOOLEAN, b \in {"bg", "a"}, e \in PfEnvs }

InitPreflight ==
    /\ devs = <<>> /\ routes = <<>> /\ tools_installed = FALSE
    /\ HostIdle
    /\ fw = NoRules
    /\ args = IdleArgs
    /\ ProcIdle
    /\ MAC_MODE = "block" /\ MAC_LIST = <<>>
    /\ pf_in \in {x \in PfInputs : x.routes = <<>> \/ x.routes = RoutesOf(x.devs)}
    /\ pf_out = NoPfOut /\ fw_last = NoFwLast

\* success, error_msg, warnings_list = preflight_checks(...)
RunPreflight ==
    /\ pf_in.used /\ ~pf_out.done
    /\ pf_out' = [done |-> TRUE] @@
                 preflight_checks(pf_in.devs, pf_in.routes, pf_in.interface, pf_in.ssid,
                                  pf_in.password, pf_in.exclude_vpn,
                                  pf_in.force_single_interface, pf_in.band, pf_in.env)
    /\ UNCHANGED <<host_vars, proc_vars, mac_vars, fw, pf_in, fw_last>>

NextPreflight == RunPreflight

SpecPreflight == InitPreflight /\ [][NextPreflight]_vars

(***************************************************************************)
(* The selector on its own: a snapshot of the devices and of the default   *)
(* routes and an override are drawn, and the selector is called twice.     *)
(***************************************************************************)
\* an Ethernet port configured outside NetworkManager: it has an address
Eth1Unmanaged ==
    Dev("eth1", "ethernet", "unmanaged", "--", TRUE, "pci", "no", "no", 0, FALSE, 0)
Wlan0Monitor ==
    Dev("wlan0", "wifi", "disconnected", "--", FALSE, "pci", "yes", "yes", 0, TRUE, 0)
Wlan1NoAp == Dev("wlan1", "wifi", "disconnected", "--", FALSE, "usb", "no", "no", 0, FALSE, 0)
Wlan2Monitor ==
    Dev("wlan2", "wifi", "disconnected", "--", FALSE, "usb", "yes", "no", 0, TRUE, 0)

\* an Ethernet port that NetworkManager reports connected, without an IPv4
\* address
Eth0NoIp == Dev("eth0", "ethernet", "connected", "Wired", FALSE, "pci", "no", "no", 0, FALSE, 0)

\* the built-in radio without AP support; a second radio on a bus that is
\* neither PCI nor USB (SDIO, platform); a USB radio that is connected
Wlan0NoAp == Dev("wlan0", "wifi", "disconnected", "--", FALSE, "pci", "no", "no", 0, FALSE, 0)
Wlan1Platform ==
    Dev("wlan1", "wifi", "connected", "HomeNet", TRUE, "platform", "yes", "no", 0, FALSE, 6)
Wlan1Connected ==
    Dev("wlan1", "wifi", "connected", "HomeNet", TRUE, "usb", "yes", "no", 0, FALSE, 6)

\* a second built-in radio with STA+AP concurrency, connected
Wlan1Concurrent ==
    Dev("wlan1", "wifi", "connected", "OfficeNet", TRUE, "pci", "yes", "no", 1, FALSE, 6)

SelHosts ==
    { x \o e \o m \o w \o u \o v :
        x \in {<<>>, <<Eth1Unmanaged>>},
        e \in {<<>>, <<Eth0>>, <<Eth0Down>>, <<Eth0NoIp>>},
        m \in {<<>>, <<Wwan0>>, <<Usb0>>},
        w \in {<<>>, <<Wlan0Monitor>>, <<Wlan0NoAp>>} \cup {<<d>> : d \in Wlan0Variants},
        u \in {<<>>, <<Wlan1>>, <<Wlan1NoAp>>, <<Wlan1Platform>>, <<Wlan1Connected>>,
               <<Wlan1Concurrent>>},
        v \in {<<>>, <<Wlan2Monitor>>} }

SelInputs ==
    { [used |-> TRUE, devs |-> ds, routes |-> rt, manual_internet_iface |-> m] :
        ds \in SelHosts, rt \in {<<>>, <<"eth1">>, <<"eth0">>, <<"wlan0">>, <<"wlan1">>},
        m \in {NoIface, "eth0", "wlan0", "wlan1"} }

NoCalls == [done |-> FALSE, interfaces |-> <<>>, calls |-> <<>>, smart |-> NoIface,
            validated |-> NoIface]

InitSelect ==
    /\ devs = <<>> /\ routes = <<>> /\ tools_installed = FALSE
    /\ HostIdle
    /\ fw = NoRules
    /\ args = IdleArgs
    /\ ProcIdle
    /\ MAC_MODE = "block" /\ MAC_LIST = <<>>
    /\ pf_in \in {x \in SelInputs :
                    x.routes = <<>> \/ x.routes[1] \in Routable(x.devs)}
    /\ pf_out = NoCalls /\ fw_last = NoFwLast

\* internet_iface, hotspot_iface, reason = get_smart_interface_selection(...),
\* on the devices and the routes of the snapshot; smart is what
\* get_smart_interface returns on it
RunSelect ==
    /\ pf_in.used /\ Len(pf_out.calls) < 2
    /\ pf_out' =
         [done |-> TRUE,
          interfaces |-> get_detailed_interfaces(pf_in.devs, pf_in.routes),
          smart |-> get_smart_interface(pf_in.devs, pf_in.routes, FALSE,
                                        pf_in.manual_internet_iface),
          \* preflight_checks: _, recommended_hotspot, _ = get_smart_interface_selection()
          validated |-> get_smart_interface_selection(pf_in.devs, pf_in.routes,
                                                      NoIface).hotspot_iface,
          calls |-> Append(pf_out.calls,
                      SelectCall(Categorise(get_detailed_interfaces(pf_in.devs,
                                                                    pf_in.routes)),
                                 pf_in.manual_internet_iface,
                                 IF pf_out.calls = <<>> THEN <<>>
                                 ELSE pf_out.calls[Len(pf_out.calls)].warnings))]
    /\ UNCHANGED <<host_vars, proc_vars, mac_vars, fw, pf_in, fw_last>>

NextSelect == RunSelect

SpecSelect == InitSelect /\ [][NextSelect]_vars

(***************************************************************************)
(* update_firewall on its own: the chains hold whatever earlier commands   *)
(* left, and the function is applied again and again.                      *)
(***************************************************************************)
MaxChain == 6

FwHotspots == {"wlan0", "wlan1"}
FwUpstreams == {"eth0", "tun0", "wlan0"}

InitFw ==
    /\ devs = <<>> /\ routes = <<>> /\ tools_installed = FALSE
    /\ HostIdle
    /\ fw = NoRules
    /\ args = IdleArgs
    /\ ProcIdle
    /\ MAC_MODE \in {"block", "allow"} /\ MAC_LIST \in SeqsUpTo(MACS, MaxMacs)
    /\ pf_in = NoPfIn /\ pf_out = NoPfOut /\ fw_last = NoFwLast

\* update_firewall(actual_hotspot_iface, new_upstream)
ApplyFirewall ==
    /\ \E h \in FwHotspots, u \in FwUpstreams :
        /\ h # u
        /\ fw' = update_firewall(fw, h, u, MAC_MODE, MAC_LIST)
        /\ fw_last' = [applied |-> TRUE, hotspot_iface |-> h, upstream_iface |-> u,
                       before |-> fw]
    /\ UNCHANGED <<host_vars, proc_vars, mac_vars, pf_vars>>

\* rules other commands add: the MSS rule main appends after nmcli con up,
\* the rules of setup_concurrent_ap_network
ForeignRules ==
    /\ Len(fw.filter_FORWARD) <= MaxChain
    /\ \/ fw' = [fw EXCEPT !.filter_FORWARD = Append_(@, MssClamp)]
       \/ \E u \in FwUpstreams : fw' = setup_concurrent_ap_network(fw, "wlan0_ap", u)
    /\ fw_last' = NoFwLast
    /\ UNCHANGED <<host_vars, proc_vars, mac_vars, pf_vars>>

NextFw == ApplyFirewall \/ ForeignRules

SpecFw == InitFw /\ [][NextFw]_vars


(***************************************************************************)
(* The session with the auto-off timer set, started by any user, with or   *)
(* without another backend running, on a few hosts.  pfenv.others says     *)
(* that another backend instance runs when this one is started: the tray   *)
(* application runs pkill before it starts a backend, a start from the     *)
(* command line does not.  No statement of a starting backend signals      *)
(* another process, so no action changes pfenv.                            *)
(***************************************************************************)
AutoHosts ==
    { <<Wlan0("connected", 1, 6)>>, <<Wlan0("disconnected", 0, 0), Eth0>> }

AutoArgs ==
    [ interface : {NoIface},
      internet_interface : {NoIface},
      ssid : {[len |-> 11, nonascii |-> FALSE]},
      password : {11},
      band : {"bg"},
      mac_mode : {"block"},
      block : {<<"aa:01">>},
      allow : {<<>>},
      auto_off : {0, 1},
      exclude_vpn : {FALSE},
      force_single_interface : {FALSE},
      is_root : BOOLEAN ]

InitAutoOff ==
    /\ devs \in AutoHosts
    /\ routes = RoutesOf(devs)
    /\ tools_installed = TRUE
    /\ HostIdle
    /\ fw = NoRules
    /\ args \in AutoArgs
    /\ pfenv \in {GoodEnv, [GoodEnv EXCEPT !.others = TRUE]}
    /\ ProcAtStart
    /\ MAC_MODE = "block" /\ MAC_LIST = <<>>
    /\ pf_in = NoPfIn /\ pf_out = NoPfOut /\ fw_last = NoFwLast

SpecAutoOff == InitAutoOff /\ [][Next]_vars

(***************************************************************************)
(* The probes on their own: the STA+AP concurrency probe on the interface  *)
(* combinations "iw phy info" lists, and the upstream resolver on a table  *)
(* of default routes.  A combination is                                    *)
(*   [managed  : it has a limit "#{ managed }",                            *)
(*    ap       : it has a limit whose set names AP,                        *)
(*    total    : its "total <= n",                                         *)
(*    channels : its "#channels <= n"].                                    *)
(***************************************************************************)
MaxCombos == 2

\* check_sta_ap_concurrency: the lines of all combinations are joined into one
\* string; the role patterns are searched in the whole string and the total
\* is the first "total <= n" of the string
check_sta_ap_concurrency(iw_ok, combos) ==
    LET has_managed == \E k \in 1..Len(combos) : combos[k].managed
        has_ap      == \E k \in 1..Len(combos) : combos[k].ap
        total_ok    == combos # <<>> /\ combos[1].total >= 2
        chans       == {1} \cup {combos[k].channels : k \in 1..Len(combos)}
        supported   == iw_ok /\ has_managed /\ has_ap /\ total_ok
    IN  [supports_concurrency |-> supported,
         max_channels |-> IF supported
                          THEN CHOOSE x \in chans : \A y \in chans : y <= x
                          ELSE 0]

Combinations ==
    [managed : BOOLEAN, ap : BOOLEAN, total : {1, 2}, channels : {1, 2}]

ProbeInputs ==
    { [used |-> TRUE, kind |-> "concurrency", iw_ok |-> ok, combos |-> cs] :
        ok \in BOOLEAN, cs \in SeqsUpTo(Combinations, MaxCombos) }

RouteNames == {"tun0", "wg0", "vpn0", "eth0", "wlan0"}

RouteInputs ==
    { [used |-> TRUE, kind |-> "upstream", routes |-> rt, exclude_vpn |-> x] :
        rt \in SeqsUpTo(RouteNames, MaxRoutes), x \in BOOLEAN }

\* how a call of iw by subprocess.run(..., timeout=5) can end: with an answer,
\* with a non-zero exit status, or with an exception (the timeout expired,
\* the program is not installed)
ToolOutcomes == {"ok", "nonzero", "TimeoutExpired", "FileNotFoundError"}

\* a plausible slip: a handler for subprocess.CalledProcessError only, which
\* subprocess.run without check=True never raises
Catches_called_process_error(clause, exc) == FALSE

\* whether an except clause catches an exception: "bare" is `except:`,
\* "Exception" is `except Exception`; both exceptions of ToolOutcomes derive
\* from Exception
Catches(clause, exc) ==
    \/ clause = "bare"
    \/ clause = "Exception" /\ exc \in {"TimeoutExpired", "FileNotFoundError"}

\* a probe whose body is inside try/except: its answer, or the value its
\* handler returns, or the exception leaving the probe
Guarded(clause, tool, default, answer) ==
    IF tool \in {"ok", "nonzero"} THEN [raised |-> FALSE, value |-> answer]
    ELSE IF Catches(clause, tool) THEN [raised |-> FALSE, value |-> default]
    ELSE [raised |-> TRUE, value |-> default]

\* the radio the capability probes are run on, as iw describes it
ProbedDev(tool, ap, g5, ch) ==
    Dev("wlan0", "wifi", "connected", "HomeNet", TRUE, "pci",
        IF tool = "nonzero" THEN "fail" ELSE ap,
        IF tool = "nonzero" THEN "fail" ELSE g5, 1, FALSE,
        IF tool = "nonzero" THEN 0 ELSE ch)

CapabilityInputs ==
    { [used |-> TRUE, kind |-> "capability", tool |-> t, ap |-> a, g5 |-> g,
       combos |-> cs, channel |-> ch] :
        t \in ToolOutcomes, a \in {"yes", "no"}, g \in {"yes", "no"},
        cs \in {<<>>, <<[managed |-> TRUE, ap |-> TRUE, total |-> 2, channels |-> 2]>>},
        ch \in {0, 1, 36} }

InitProbe ==
    /\ devs = <<>> /\ routes = <<>> /\ tools_installed = FALSE
    /\ HostIdle
    /\ fw = NoRules
    /\ args = IdleArgs
    /\ ProcIdle
    /\ MAC_MODE = "block" /\ MAC_LIST = <<>>
    /\ pf_in \in ProbeInputs \cup RouteInputs \cup CapabilityInputs
    /\ pf_out = [done |-> FALSE] /\ fw_last = NoFwLast

\* supports_concurrency, concurrency_channels = check_sta_ap_concurrency(dev_name)
RunConcurrencyProbe ==
    /\ pf_in.kind = "concurrency" /\ ~pf_out.done
    /\ pf_out' = [done |-> TRUE] @@ check_sta_ap_concurrency(pf_in.iw_ok, pf_in.combos)
    /\ UNCHANGED <<host_vars, proc_vars, mac_vars, fw, pf_in, fw_last>>

\* new_upstream = get_upstream_interface(EXCLUDE_VPN)
RunUpstream ==
    /\ pf_in.kind = "upstream" /\ ~pf_out.done
    /\ pf_out' = [done |-> TRUE,
                  upstream |-> get_upstream_interface(pf_in.routes, pf_in.exclude_vpn)]
    /\ UNCHANGED <<host_vars, proc_vars, mac_vars, fw, pf_in, fw_last>>

\* the four capability probes on one radio, every call of iw ending alike
RunCapabilityProbes ==
    /\ pf_in.kind = "capability" /\ ~pf_out.done
    /\ LET d == ProbedDev(pf_in.tool, pf_in.ap, pf_in.g5, pf_in.channel)
       IN  pf_out' =
             [done |-> TRUE,
              ap_support |-> Guarded("bare", pf_in.tool, TRUE,
                                     check_ap_mode_support_for_iface(d)),
              supports_5ghz |-> Guarded("bare", pf_in.tool, FALSE,
                                        check_5ghz_support_for_iface(d)),
              supports_concurrency |->
                  Guarded("Exception", pf_in.tool, FALSE,
                          check_sta_ap_concurrency(pf_in.tool = "ok", pf_in.combos)
                              .supports_concurrency),
              channel |-> Guarded("bare", pf_in.tool, 6, get_wifi_channel(<<d>>, d.name))]
    /\ UNCHANGED <<host_vars, proc_vars, mac_vars, fw, pf_in, fw_last>>

NextProbe == RunConcurrencyProbe \/ RunUpstream \/ RunCapabilityProbes

SpecProbe == InitProbe /\ [][NextProbe]_vars

(***************************************************************************)
(* The teardown step by step.  cleanup() and main --stop are run one       *)
(* numbered step at a time (the "# 1." ... comments of the source) on a    *)
(* session brought up by the startup actions above.  pc = "cleanup" while  *)
(* cleanup() runs; pf_in holds the trigger, the position in cleanup() and  *)
(* the position of the --stop process, and in steps the list of the steps  *)
(* performed so far, each with the function that performed it.             *)
(***************************************************************************)
\* a plausible slip: the PID file released before the profile is removed
cleanup_steps_pid_early ==
    <<"stop_helpers", "flush_nat", "remove_pid", "delete_profile", "delete_virtual">>

\* cleanup(): its steps 1 to 5
cleanup_steps ==
    <<"stop_helpers", "flush_nat", "delete_profile", "delete_virtual", "remove_pid">>

\* main --stop: its steps 3 to 7 (1 and 2 signal the running backend)
stop_steps ==
    <<"stop_helpers", "delete_profile", "flush_nat", "delete_virtual", "remove_pid">>

TeardownIdle == [trigger |-> "none", cleanup_at |-> 0, stop_at |-> 0, steps |-> <<>>]

InitTeardown ==
    /\ devs \in AutoHosts
    /\ routes = RoutesOf(devs)
    /\ tools_installed = TRUE
    /\ HostIdle
    /\ fw = NoRules
    /\ args \in ArgSet
    /\ ProcIdle
    /\ MAC_MODE = "block" /\ MAC_LIST = <<>>
    /\ pf_in = TeardownIdle /\ pf_out = NoPfOut /\ fw_last = NoFwLast

\* what the step called name does to the host, done by the function by; the
\* chains and the virtual interfaces it leaves are those of the caller, next
\* the positions after it
TeardownStep(by, name, fw_after, virt_after, next) ==
    /\ helpers' = IF name = "stop_helpers" THEN {} ELSE helpers
    /\ files' = CASE name = "stop_helpers" -> stop_concurrent_mode(files)
                  [] name = "remove_pid" -> files \ {PID_FILE}
                  [] OTHER -> files
    /\ fw' = IF name = "flush_nat" THEN fw_after ELSE fw
    /\ nm_profile' = IF name = "delete_profile" THEN FALSE ELSE nm_profile
    /\ devs' = IF name = "delete_profile" THEN ProfileDeleted(devs) ELSE devs
    /\ routes' = IF name = "delete_profile"
                 THEN RoutesLeft(routes, ProfileDeleted(devs)) ELSE routes
    /\ virt' = IF name = "delete_virtual" THEN virt_after ELSE virt
    /\ pf_in' = [next EXCEPT !.steps = Append(@, [by |-> by, step |-> name])]

\* SIGINT or SIGTERM reaches the session: cleanup() starts
SignalArrives ==
    /\ HandlersInstalled /\ pc # "cleanup"
    /\ signalled' = TRUE
    /\ pc' = "cleanup"
    /\ pf_in' = [pf_in EXCEPT !.trigger = IF @ = "none" THEN "signal" ELSE @,
                              !.cleanup_at = 1]
    /\ UNCHANGED <<host_vars, fw, pf_out, fw_last, mac_vars, exit_code, args, pfenv,
                   HOTSPOT_IFACE, CURRENT_UPSTREAM_IFACE, EXCLUDE_VPN,
                   USING_CONCURRENCY, VIRTUAL_AP_IFACE, actual_hotspot_iface, channel,
                   idle_seconds, check_counter, mode, decision, issued>>

\* a second invocation with --stop: steps 1 and 2 signal the backend of the
\* PID file and wait for it; with no backend left it goes on to step 3
StopArrives ==
    /\ pf_in.stop_at = 0 /\ pc # "cleanup"
    /\ \/ /\ HandlersInstalled
          /\ signalled' = TRUE
          /\ pc' = "cleanup"
          /\ pf_in' = [pf_in EXCEPT !.trigger = "stop", !.cleanup_at = 1,
                                    !.stop_at = 2]
       \/ /\ pc = "exited"
          /\ pf_in' = [pf_in EXCEPT !.trigger = "stop", !.stop_at = 3]
          /\ UNCHANGED <<pc, signalled>>
    /\ UNCHANGED <<host_vars, fw, pf_out, fw_last, mac_vars, exit_code, args, pfenv,
                   HOTSPOT_IFACE, CURRENT_UPSTREAM_IFACE, EXCLUDE_VPN,
                   USING_CONCURRENCY, VIRTUAL_AP_IFACE, actual_hotspot_iface, channel,
                   idle_seconds, check_counter, mode, decision, issued>>

\* one step of cleanup(); sys.exit(0) follows the last one, and a --stop that
\* waits for the process goes on
CleanupStep ==
    /\ pc = "cleanup"
    /\ TeardownStep("cleanup", cleanup_steps[pf_in.cleanup_at], cleanup_firewall(fw),
                    cleanup_virtual(virt, HOTSPOT_IFACE),
                    IF pf_in.cleanup_at = Len(cleanup_steps)
                    THEN [pf_in EXCEPT !.cleanup_at = 0,
                                       !.stop_at = IF @ = 2 THEN 3 ELSE @]
                    ELSE [pf_in EXCEPT !.cleanup_at = @ + 1])
    /\ IF pf_in.cleanup_at = Len(cleanup_steps)
       THEN Exit(0)
       ELSE UNCHANGED <<pc, exit_code>>
    /\ UNCHANGED <<tools_installed, status_file, hostapd_config, pf_out, fw_last, mac_vars,
                   args, pfenv, HOTSPOT_IFACE, CURRENT_UPSTREAM_IFACE, EXCLUDE_VPN,
                   USING_CONCURRENCY, VIRTUAL_AP_IFACE, actual_hotspot_iface, channel,
                   idle_seconds, check_counter, mode, decision, issued, signalled>>

\* one of the steps 3 to 7 of main --stop
StopStep ==
    /\ pf_in.stop_at \in 3..7
    /\ TeardownStep("stop", stop_steps[pf_in.stop_at - 2], stop_firewall(fw),
                    stop_virtual(virt, devs), [pf_in EXCEPT !.stop_at = @ + 1])
    /\ UNCHANGED <<tools_installed, status_file, hostapd_config, pf_out, fw_last,
                   mac_vars, proc_vars>>

NextTeardown ==
    \/ Start \/ Preflight \/ WritePid \/ Select \/ Decide
    \/ CreateVirtual \/ ConcurrentSetup \/ StartHostapd \/ StartDnsmasq
    \/ NmPrepare \/ NmAdd \/ NmModify \/ NmUp
    \/ SignalArrives \/ StopArrives \/ CleanupStep \/ StopStep

SpecTeardown == InitTeardown /\ [][NextTeardown]_vars

(***************************************************************************)
(* A backend replaced from the tray: toggle_hotspot found no live PID in   *)
(* the PID file, ran "pkill -f hotspot_backend.py" and started a new       *)
(* backend without waiting for the old one to end.  The old backend runs   *)
(* cleanup() step by step (pf_in.old_at is its position, 0 when it has     *)
(* exited, pf_in.old_hotspot its HOTSPOT_IFACE) while the new one, the     *)
(* process of the variables above, starts.                                 *)
(***************************************************************************)
\* the old session as the host has it: [devs, virt, helpers, files, profile, fw]
OldSessions ==
    { [devs |-> Activated(<<Wlan0("disconnected", 0, 0), Eth0>>, "wlan0"),
       virt |-> {}, helpers |-> {}, files |-> {}, profile |-> TRUE,
       fw |-> update_firewall(NoRules, "wlan0", "eth0", "block", <<>>)],
      [devs |-> <<Wlan0("connected", 1, 6)>>,
       virt |-> {VirtualName("wlan0")}, helpers |-> {"hostapd", "dnsmasq"},
       files |-> {HOSTAPD_CONF, HOSTAPD_PID, DNSMASQ_CONF, DNSMASQ_PID, DNSMASQ_LEASES},
       profile |-> FALSE,
       fw |-> setup_concurrent_ap_network(NoRules, VirtualName("wlan0"), "wlan0")] }

InitReplace ==
    /\ \E o \in OldSessions :
         /\ devs = o.devs /\ virt = o.virt /\ helpers = o.helpers
         /\ nm_profile = o.profile /\ fw = o.fw
         \* no PID file, or one that holds the PID of a process that is gone
         /\ files \in {o.files, o.files \cup {PID_FILE}}
    /\ routes = RoutesOf(devs)
    /\ tools_installed = TRUE
    /\ status_file = write_status("active", FALSE) /\ hostapd_config = NoConfig
    /\ args \in ArgSet
    /\ pfenv \in {GoodEnv, [GoodEnv EXCEPT !.others = TRUE]}
    /\ ProcAtStart
    /\ MAC_MODE = "block" /\ MAC_LIST = <<>>
    /\ pf_in = [trigger |-> "replace", cleanup_at |-> 0, stop_at |-> 0, steps |-> <<>>,
                old_at |-> 1, old_hotspot |-> "wlan0"]
    /\ pf_out = NoPfOut /\ fw_last = NoFwLast

\* one step of cleanup() in the old backend, sys.exit(0) after the last one
OldCleanupStep ==
    /\ pf_in.trigger = "replace" /\ pf_in.old_at \in 1..Len(cleanup_steps)
    /\ TeardownStep("old", cleanup_steps[pf_in.old_at], cleanup_firewall(fw),
                    cleanup_virtual(virt, pf_in.old_hotspot),
                    [pf_in EXCEPT !.old_at = IF @ = Len(cleanup_steps) THEN 0 ELSE @ + 1])
    /\ UNCHANGED <<tools_installed, status_file, hostapd_config, pf_out, fw_last,
                   mac_vars, proc_vars>>

NextReplace ==
    \/ Start \/ Preflight \/ WritePid \/ Select \/ Decide
    \/ CreateVirtual \/ ConcurrentSetup \/ StartHostapd \/ StartDnsmasq
    \/ NmPrepare \/ NmAdd \/ NmModify \/ NmUp
    \/ OldCleanupStep

SpecReplace == InitReplace /\ [][NextReplace]_vars

(***************************************************************************)
(* Properties.                                                             *)
(***************************************************************************)
\* the commands that disconnect or reconfigure the physical radio, or create or
\* activate the access-point profile
RadioCommands == {"radio_on", "disconnect", "profile_delete", "profile_add", "profile_up"}

\* the device record of the hotspot interface
PhysicalRadio == Filter(devs, {d \in Range(devs) : d.name = HOTSPOT_IFACE})

\* C1: in Concurrent mode, when hostapd fails to start or the virtual interface
\* cannot be created, the process exits with code 1, never having disconnected
\* the physical radio or created or activated the access-point profile, and at
\* exit the virtual interface is gone and the generated hostapd and dnsmasq
\* configurations are removed.  (Without auto-off, a Concurrent session that
\* has exited without a signal has exited on one of these two failures.)
C1_StartupFailureTornDown ==
    (pc = "exited" /\ mode = "Concurrent" /\ ~signalled) =>
        /\ exit_code = 1
        /\ issued \cap RadioCommands = {}
        /\ VirtualName(HOTSPOT_IFACE) \notin virt
        /\ files \cap {HOSTAPD_CONF, DNSMASQ_CONF} = {}

\* the decision was taken on a connected radio without concurrency support and
\* without a distinct hardware-backed upstream
MustRefuse ==
    /\ decision.made
    /\ decision.is_connected
    /\ ~decision.supports_concurrency
    /\ ~decision.using_separate_adapter

C3_ConcurrentPreservesRadio ==
    /\ [](decision.made =>
            ((decision.supports_concurrency /\ decision.is_connected
                 /\ decision.hostapd_available) <=> mode = "Concurrent"))
    /\ [](mode = "Concurrent" =>
            /\ issued \cap RadioCommands = {}
            /\ PhysicalRadio[1].state = "connected"
            /\ ~nm_profile)
    /\ [][mode' \in {"none", "Concurrent"} => devs' = devs]_vars

C3_Witness ==
    /\ mode = "Concurrent" /\ decision.using_separate_adapter
    /\ pc = "monitor" /\ status_file.status = "active"
    /\ PhysicalRadio[1].state = "connected"

\* the preflight input of the single-radio scenario: wlan0 is the only Wi-Fi
\* radio, connected, the upstream, without concurrency support; nothing else
\* is connected or has an address; every other check passes
SingleRadioInput ==
    /\ pf_in.used
    /\ \E w \in PfWlan0 :
         /\ w.state = "connected" /\ w.conc = 0 /\ w.ap = "yes" /\ ~w.monitor
         /\ pf_in.band = "a" => w.g5 = "yes"
         /\ pf_in.devs \in {<<w>>, <<w, Eth0Down>>}
    /\ pf_in.routes = <<"wlan0">>
    /\ pf_in.interface \in {NoIface, "wlan0"}
    /\ pf_in.env = GoodEnv
    /\ pf_in.ssid.len \in 1..32
    /\ pf_in.password \in 8..63

\* C4: in the single-radio scenario without force_single_interface the
\* validator returns ok = false with exactly one fatal error, the one about
\* the radio being disconnected.
C4_SingleRadioBlocked ==
    (pf_out.done /\ SingleRadioInput /\ ~pf_in.force_single_interface) =>
        /\ ~pf_out.success
        /\ pf_out.errors = <<"blocked_only_wifi">>

C4_Witness ==
    /\ pf_out.done /\ SingleRadioInput /\ ~pf_in.force_single_interface
    /\ pf_in.devs[Len(pf_in.devs)] = Eth0Down
    /\ ~pf_out.success

\* C5: in the single-radio scenario with force_single_interface the validator
\* returns ok = true, no error, and a warning about the forced disconnect.
C5_SingleRadioForced ==
    (pf_out.done /\ SingleRadioInput /\ pf_in.force_single_interface) =>
        /\ pf_out.success
        /\ pf_out.errors = <<>>
        /\ "forced_disconnect" \in Range(pf_out.warnings)

C5_Witness ==
    /\ pf_out.done /\ SingleRadioInput /\ pf_in.force_single_interface
    /\ pf_out.success /\ pf_out.warnings # <<>>

\* C6: on every input and every return path, the early ones included, the
\* validator's result has ok = true exactly when its error list is empty.
C6_OkIffNoErrors ==
    pf_out.done => (pf_out.success <=> pf_out.errors = <<>>)

C6_Witness ==
    /\ pf_out.done /\ pf_out.ret = "not_found" /\ ~pf_out.success
    /\ pf_out.errors # <<>>

\* the password errors of a result
PasswordErrorIn(errors) == Range(errors) \cap {"password_short", "password_long"} # {}

\* C7: in a run that reaches the password check, a fatal password error is
\* recorded exactly when the password's length is outside 8..63, lengths 0 and
\* 7 included.
C7_PasswordBounds ==
    (pf_out.done /\ pf_out.ret = "end") =>
        (PasswordErrorIn(pf_out.errors) <=> pf_in.password \notin 8..63)

\* the verdict of the installed filter FORWARD chain on a packet from the
\* hotspot interface towards the programmed upstream
HotspotVerdict(mac, state) ==
    Verdict(fw.filter_FORWARD, fw.policy_FORWARD,
            [in |-> actual_hotspot_iface, out |-> CURRENT_UPSTREAM_IFACE,
             mac |-> mac, state |-> state])

\* C8: in an active session of any mode, once the monitor loop has programmed
\* or recorded an upstream, the forwarding rules enforce the MAC policy: in
\* Block mode no packet of a listed address is accepted from the hotspot
\* interface towards the upstream, in Allow mode no new packet of an unlisted
\* address is.
C8_MacPolicyEnforced ==
    (pc = "monitor" /\ CURRENT_UPSTREAM_IFACE # NoIface) =>
        \A m \in MACS :
            /\ (MAC_MODE = "block" /\ m \in Range(MAC_LIST)) =>
                   \A st \in {"NEW", "ESTABLISHED"} : HotspotVerdict(m, st) # "ACCEPT"
            /\ (MAC_MODE = "allow" /\ m \notin Range(MAC_LIST)) =>
                   HotspotVerdict(m, "NEW") # "ACCEPT"

\* the masquerade rule and the forward rule of chains f name upstream up
RulesName(f, hs, up) ==
    /\ \E r \in Range(f.nat_POSTROUTING) : r.out = up /\ r.target = "MASQUERADE"
    /\ \E r \in Range(f.filter_FORWARD) : r.in = up /\ r.out = hs /\ r.target = "ACCEPT"

\* C9: in every mode, after a monitor-loop iteration in which the resolved
\* upstream is non-empty and differs from the last programmed upstream and from
\* the hotspot interface, the masquerade and forward rules name the new upstream.
C9_RulesFollowUpstream ==
    [][(pc = "monitor" /\ pc' = "monitor" /\ routes' = routes /\ UpstreamChanged)
          => RulesName(fw', actual_hotspot_iface, NewUpstream)]_vars

\* C10: update_firewall is idempotent and does not accumulate: whatever the
\* chains held before, after it they hold what one application to empty chains
\* leaves (same rules, same order, same count), and applying it again with the
\* same arguments changes nothing.
C10_ReprogrammingIdempotent ==
    fw_last.applied =>
        /\ fw = update_firewall(NoRules, fw_last.hotspot_iface, fw_last.upstream_iface,
                                MAC_MODE, MAC_LIST)
        /\ update_firewall(fw, fw_last.hotspot_iface, fw_last.upstream_iface,
                           MAC_MODE, MAC_LIST) = fw

\* update_firewall has run twice in succession with the same arguments
C10_Witness ==
    /\ fw_last.applied /\ fw_last.before = fw
    /\ MAC_LIST # <<>>


\* the idle threshold in seconds
Threshold == args.auto_off * 60

\* C11: with the auto-off timer set, only every 5th iteration of the monitor
\* loop samples the clients; a sample without clients adds 5 to the idle
\* accumulator and a sample with clients resets it to 0; the session is torn
\* down and the process exits (other than on a signal) exactly in the iteration
\* in which the accumulator reaches auto_off * 60.
C11_AutoOffAtThreshold ==
    /\ [](pc = "monitor" /\ args.auto_off > 0 => idle_seconds < Threshold)
    /\ [][(pc = "monitor" /\ args.auto_off > 0 /\ routes' = routes /\ ~signalled') =>
            /\ check_counter # 4 =>
                 idle_seconds' = idle_seconds /\ check_counter' = check_counter + 1
            /\ check_counter = 4 =>
                 idle_seconds' \in {idle_seconds + 5, 0} /\ check_counter' = 0
            /\ pc' = "exited" <=> idle_seconds' >= Threshold
            /\ pc' = "exited" =>
                 exit_code' = 0 /\ helpers' = {} /\ PID_FILE \notin files']_vars

\* the timer has fired: twelve samples without clients in a row
C11_Witness ==
    /\ pc = "exited" /\ ~signalled /\ args.auto_off > 0
    /\ idle_seconds = Threshold /\ status_file.status = "active"


\* C12: once a teardown has completed (a stop signal, or --stop from a second
\* invocation), whatever the mode, no rule of the session is left in nat
\* POSTROUTING, filter FORWARD or mangle FORWARD, no virtual AP interface
\* exists, the profile is deleted, the helpers are stopped and the PID file is
\* removed.
C12_TeardownLeavesNothing ==
    (pc = "exited" /\ signalled) =>
        /\ fw.nat_POSTROUTING = <<>>
        /\ fw.filter_FORWARD = <<>>
        /\ fw.mangle_FORWARD = <<>>
        /\ virt = {}
        /\ ~nm_profile
        /\ helpers = {}
        /\ PID_FILE \notin files


C14_OtherBackendTerminated ==
    (pc = "monitor" /\ status_file.status = "active") => ~pfenv.others


\* C15: a process that has ended has exit code 1 if it was run without
\* privilege, if the preflight checks failed, or if the setup failed (no Wi-Fi
\* interface to select, a failing nmcli command, a Concurrent-mode failure, a
\* refusal); it has exit code 0 only after a stop (a signal or --stop) or after
\* a teardown that follows a start that had succeeded.
C15_ExitCodes ==
    pc = "exited" =>
        /\ exit_code \in {0, 1}
        /\ ~args.is_root => exit_code = 1
        /\ exit_code = 0 <=> (signalled \/ status_file.status = "active")


\* C16: when a command of the Managed or Dual-Adapter startup fails, the
\* process ends with the PID file removed, the profile "Hotspot" deleted and
\* an error status written.
C16_StandardFailureCleansUp ==
    (pc = "exited" /\ exit_code = 1 /\ mode \in {"Managed", "DualAdapter"}) =>
        /\ PID_FILE \notin files
        /\ ~nm_profile
        /\ status_file.status = "error" /\ status_file.is_error


ConnectedEthernets ==
    Filter(pf_out.interfaces,
           {i \in Range(pf_out.interfaces) : i.type = "ethernet" /\ i.connected})

AddressedEthernets ==
    Filter(pf_out.interfaces,
           {i \in Range(pf_out.interfaces) :
               i.type = "ethernet" /\ i.state # "unavailable"
               /\ (i.connected \/ i.has_ip)})

UsbApAdapters ==
    Filter(pf_out.interfaces,
           {i \in Range(pf_out.interfaces) :
               i.type = "wifi" /\ i.is_usb /\ i.ap_support /\ ~i.in_monitor_mode})

MonitorModeRadios ==
    Filter(pf_out.interfaces,
           {i \in Range(pf_out.interfaces) : i.type = "wifi" /\ i.in_monitor_mode})

EthernetAndUsbAdapter ==
    /\ pf_out.done /\ pf_in.manual_internet_iface = NoIface
    /\ ConnectedEthernets # <<>> /\ UsbApAdapters # <<>>

C19_DisconnectedNeverSource ==
    pf_out.done =>
        \A i \in Range(pf_out.interfaces) : ~i.connected => ~i.is_internet_source


\* C20: the status file, once written, holds a record whose status is "active"
\* or "error" and whose is_error is true exactly when the status is "error".
C20_StatusRecords ==
    status_file # NoStatus =>
        /\ status_file.status \in {"active", "error"}
        /\ status_file.is_error <=> status_file.status = "error"


\* C21: the concurrency probe answers "supported" only if one of the declared
\* combinations has a managed role, an AP role and a total of at least 2; when
\* the two roles appear only in different combinations it answers
\* "unsupported".
C21_ConcurrencyInOneCombination ==
    (pf_out.done /\ pf_in.kind = "concurrency" /\ pf_out.supports_concurrency) =>
        \E k \in 1..Len(pf_in.combos) :
            /\ pf_in.combos[k].managed
            /\ pf_in.combos[k].ap
            /\ pf_in.combos[k].total >= 2


\* the advisories of preflight that promise that the connection stays
ConcurrencyAdvisories ==
    {"concurrent_multi_channel", "concurrent_same_channel", "concurrent_maintained"}

\* C22: when preflight has emitted the concurrency advisory for the connected
\* target, the session that follows issues no command that disconnects the
\* target's radio: it runs in Concurrent mode or the start is refused, also
\* when the helper tools are missing and a distinct physical upstream exists.
C22_AdvisoryKept ==
    (pf_out.done /\ Range(pf_out.warnings) \cap ConcurrencyAdvisories # {}) =>
        /\ mode \in {"none", "Concurrent", "Refused"}
        /\ issued \cap RadioCommands = {}


\* C23: preflight returns early only on a radio block or when no Wi-Fi
\* interface is present; after any other error it goes on to the later checks,
\* so that a too short password is reported in the same report.
C23_OnlyTwoEarlyReturns ==
    pf_out.done =>
        /\ pf_out.ret \in {"rfkill", "no_wifi", "end"}
        /\ (pf_out.ret \notin {"rfkill", "no_wifi"} /\ pf_in.password \in 1..7) =>
               "password_short" \in Range(pf_out.errors)


\* the records of the snapshot of a given kind, in the order of the snapshot
Snapshot(kind) == Filter(pf_out.interfaces, {i \in Range(pf_out.interfaces) : kind[i]})

EthernetWithIp ==
    Snapshot([i \in Range(pf_out.interfaces) |->
                 i.type = "ethernet" /\ i.connected /\ i.has_ip])
MobileWithIp ==
    Snapshot([i \in Range(pf_out.interfaces) |-> i.is_mobile /\ i.has_ip])
TetherWithIp ==
    Snapshot([i \in Range(pf_out.interfaces) |-> i.is_tethered /\ i.has_ip])
ConnectedWifi ==
    Snapshot([i \in Range(pf_out.interfaces) |-> i.type = "wifi" /\ i.connected])

\* C24: the internet source of the selector is the manual override if given,
\* else a connected Ethernet that has an address, else a mobile-broadband
\* interface with an address, else a tethered interface with an address, else
\* a connected Wi-Fi; if none matches it is empty and a warning is recorded.
C24_InternetSourcePriority ==
    pf_out.done =>
        IF pf_in.manual_internet_iface # NoIface
          THEN pf_out.calls[1].internet_iface = pf_in.manual_internet_iface
        ELSE IF EthernetWithIp # <<>>
          THEN pf_out.calls[1].internet_iface \in Range(Names(EthernetWithIp))
        ELSE IF MobileWithIp # <<>>
          THEN pf_out.calls[1].internet_iface = MobileWithIp[1].name
        ELSE IF TetherWithIp # <<>>
          THEN pf_out.calls[1].internet_iface = TetherWithIp[1].name
        ELSE IF ConnectedWifi # <<>>
          THEN pf_out.calls[1].internet_iface = ConnectedWifi[1].name
        ELSE /\ pf_out.calls[1].internet_iface = NoIface
             /\ "no_internet_access" \in Range(pf_out.calls[1].warnings)


\* the radios of the snapshot that can host an access point
ApCapableRadios ==
    Snapshot([i \in Range(pf_out.interfaces) |->
                 i.type = "wifi" /\ i.ap_support /\ ~i.in_monitor_mode])

\* C25: on a snapshot with at least one Wi-Fi radio that supports AP mode and
\* is not in monitor mode the selector returns a hotspot interface; a built-in
\* radio without AP support does not hide another AP-capable radio.
C25_HotspotFoundWhenPossible ==
    (pf_out.done /\ ApCapableRadios # <<>>) =>
        pf_out.calls[1].hotspot_iface # NoIface


\* the case of C26 in the first result: the hotspot interface is the only
\* AP-capable radio, it is the internet source as well, it has no concurrency
\* support, and no Ethernet, mobile or tethered uplink exists
SoleRadioIsUplink ==
    /\ pf_out.done
    /\ Len(ApCapableRadios) = 1
    /\ pf_out.calls[1].hotspot_iface = ApCapableRadios[1].name
    /\ pf_out.calls[1].internet_iface = ApCapableRadios[1].name
    /\ ~ApCapableRadios[1].supports_concurrency
    /\ \A i \in Range(pf_out.interfaces) :
           ~(i.type = "ethernet" /\ i.state # "unavailable" /\ (i.connected \/ i.has_ip))
           /\ ~(i.is_mobile /\ i.has_ip) /\ ~(i.is_tethered /\ i.has_ip)

\* C26: in that case the result carries the high-risk warning, whatever the
\* bus of the radio.
C26_HighRiskFlagged ==
    SoleRadioIsUplink => "only_wifi_will_switch" \in Range(pf_out.calls[1].warnings)


\* C27: a hotspot interface returned by get_smart_interface_selection or by
\* get_smart_interface, its legacy fallback included, is in the snapshot a
\* Wi-Fi interface with AP support that is not in monitor mode.
C27_HotspotIsApCapable ==
    pf_out.done =>
        /\ pf_out.calls[1].hotspot_iface # NoIface =>
               pf_out.calls[1].hotspot_iface \in Range(Names(ApCapableRadios))
        /\ pf_out.smart # NoIface => pf_out.smart \in Range(Names(ApCapableRadios))


\* the positions of the table whose device is no VPN device
NonVpnRoutes ==
    {k \in 1..Len(pf_in.routes) : ~StartsWithAny(pf_in.routes[k], vpn_prefixes)}

\* C28: in exclude-VPN mode the resolver returns the first listed device whose
\* name starts with no VPN prefix; the first listed device if all are VPN
\* devices; nothing if the table is empty.
C28_ExcludeVpnUpstream ==
    (pf_out.done /\ pf_in.kind = "upstream" /\ pf_in.exclude_vpn) =>
        IF NonVpnRoutes # {}
          THEN \E k \in NonVpnRoutes :
                  /\ \A j \in NonVpnRoutes : k <= j
                  /\ pf_out.upstream = pf_in.routes[k]
        ELSE IF pf_in.routes # <<>>
          THEN pf_out.upstream = pf_in.routes[1]
        ELSE pf_out.upstream = NoIface

\* a table of VPN devices only: the first one is returned
C28_Witness ==
    /\ pf_out.done /\ pf_in.kind = "upstream" /\ pf_in.exclude_vpn
    /\ pf_in.routes = <<"wg0", "tun0">> /\ NonVpnRoutes = {}
    /\ pf_out.upstream = "wg0"


\* the target radio as the host has it
TargetRadio == Filter(devs, {x \in Range(devs) : x.name = HOTSPOT_IFACE})

\* C29: in Concurrent mode on a radio with single-channel concurrency the
\* channel written to the AP configuration is the channel the radio operates
\* on, whatever band was requested.
C29_SingleChannelFollowsRadio ==
    (mode = "Concurrent" /\ hostapd_config.written /\ TargetRadio # <<>>
       /\ TargetRadio[1].conc < 2) =>
        hostapd_config.channel = TargetRadio[1].channel


\* the upstream the mode decision resolved, as the host has it
DecidedUpstream == Filter(devs, {x \in Range(devs) : x.name = decision.internet_iface})

\* C30: Dual-Adapter mode is entered only on a resolved upstream that is not
\* empty, is not the target radio and is backed by physical hardware: never on
\* an upstream with no device link (tun/tap/wg/ppp) or under /virtual/.
C30_DualAdapterNeedsPhysicalUpstream ==
    mode = "DualAdapter" =>
        /\ decision.internet_iface # NoIface
        /\ decision.internet_iface # HOTSPOT_IFACE
        /\ DecidedUpstream # <<>>
        /\ DecidedUpstream[1].devpath \notin {"none", "virtual"}
        /\ ~StartsWithAny(decision.internet_iface, vpn_prefixes)

\* Dual-Adapter mode on the wired upstream of a host that also has a VPN device
C30_Witness ==
    /\ mode = "DualAdapter" /\ decision.internet_iface = "eth0"
    /\ HOTSPOT_IFACE = "wlan0"
    /\ \E k \in 1..Len(devs) : devs[k].devpath \in {"none", "virtual"}


\* the steps the function by has performed so far, in the order performed
StepsBy(by) == Filter(pf_in.steps, {e \in Range(pf_in.steps) : e.by = by})

StepNames(by) == [k \in DOMAIN StepsBy(by) |-> StepsBy(by)[k].step]

\* the order the statement gives
StatedOrder ==
    <<"stop_helpers", "delete_virtual", "flush_nat", "delete_profile", "remove_pid">>

IsPrefix(s, t) == Len(s) <= Len(t) /\ \A k \in 1..Len(s) : s[k] = t[k]

C32_ProbesAbsorbFailure ==
    (pf_out.done /\ pf_in.kind = "capability") =>
        /\ ~pf_out.ap_support.raised /\ ~pf_out.supports_5ghz.raised
        /\ ~pf_out.supports_concurrency.raised /\ ~pf_out.channel.raised
        /\ pf_in.tool # "ok" =>
              /\ pf_out.ap_support.value = TRUE
              /\ pf_out.supports_5ghz.value = FALSE
              /\ pf_out.supports_concurrency.value = FALSE
              /\ pf_out.channel.value = 6

\* iw runs into its timeout on a radio that has no AP mode, has 5 GHz and
\* concurrency and is on channel 36
C32_Witness ==
    /\ pf_out.done /\ pf_in.kind = "capability" /\ pf_in.tool = "TimeoutExpired"
    /\ pf_in.ap = "no" /\ pf_in.g5 = "yes" /\ pf_in.combos # <<>> /\ pf_in.channel = 36
    /\ pf_out.ap_support.value /\ ~pf_out.supports_5ghz.value
    /\ ~pf_out.supports_concurrency.value /\ pf_out.channel.value = 6


\* the mode and the interfaces of a session in its monitor loop
ModeAndInterfaces ==
    pc = "monitor" =>
        /\ mode \in {"Concurrent", "DualAdapter", "Managed"}
        /\ VIRTUAL_AP_IFACE # NoIface <=> mode = "Concurrent"
        /\ mode = "Concurrent" =>
              /\ actual_hotspot_iface = VIRTUAL_AP_IFACE
              /\ actual_hotspot_iface # HOTSPOT_IFACE
              /\ actual_hotspot_iface \in virt
        /\ mode # "Concurrent" =>
              /\ actual_hotspot_iface = HOTSPOT_IFACE
              /\ virt = {}

\* a step of the monitor loop keeps the mode and the interfaces
ModeKept ==
    (pc = "monitor" /\ pc' = "monitor") =>
        /\ mode' = mode
        /\ HOTSPOT_IFACE' = HOTSPOT_IFACE
        /\ actual_hotspot_iface' = actual_hotspot_iface
        /\ VIRTUAL_AP_IFACE' = VIRTUAL_AP_IFACE

\* C33: throughout the monitor loop the mode never changes; the session has a
\* virtual AP interface if and only if the mode is Concurrent, and then the AP
\* runs on it and not on the physical radio.
C33_ModeFixedAtStart == [] ModeAndInterfaces /\ [][ModeKept]_vars

\* a Concurrent session whose monitor loop has recorded an upstream
C33_Witness ==
    /\ pc = "monitor" /\ mode = "Concurrent" /\ CURRENT_UPSTREAM_IFACE # NoIface
    /\ VIRTUAL_AP_IFACE = "wlan0_ap" /\ actual_hotspot_iface = "wlan0_ap"
    /\ HOTSPOT_IFACE = "wlan0"


\* C34: with no hotspot interface given, the interface the session is started
\* on (the selection of main, made with the manual internet override) is the
\* interface the preflight checks validated (their selection, made without it).
C34_StartedOnValidated ==
    (pf_out.done /\ pf_out.validated # NoIface) => pf_out.smart = pf_out.validated


\* C35: a session that replaced a running backend, once active, has its PID
\* file (written by itself: the old backend writes none during its teardown)
\* and, when it runs through NetworkManager, its access-point profile,
\* however the teardown of the old backend was interleaved with its startup.
C35_ReplacementKeepsMarkerAndProfile ==
    (pf_in.trigger = "replace" /\ pc = "monitor") =>
        /\ PID_FILE \in files
        /\ mode \in {"Managed", "DualAdapter"} => nm_profile


\* C36: every generated hostapd configuration has the 5 GHz hardware mode if
\* and only if its channel is a 5 GHz channel (above 14).
C36_BandConsistentConfig ==
    hostapd_config.written => (hostapd_config.hw_mode = "a" <=> hostapd_config.channel > 14)


\* the devices of the table that the inventory classifies as VPN
\* (get_detailed_interfaces: is_vpn)
InventoryVpn(n) == StartsWithAny(n, inventory_vpn_prefixes)

\* C37: in exclude-VPN mode the resolver returns no interface the inventory
\* classifies as VPN while the table has a default route through an interface
\* it does not classify as VPN.
C37_ResolverAgreesWithInventory ==
    (pf_out.done /\ pf_in.kind = "upstream" /\ pf_in.exclude_vpn
       /\ \E n \in Range(pf_in.routes) : ~InventoryVpn(n)) =>
        ~InventoryVpn(pf_out.upstream)


\* the accumulator and the counter in a state of the monitor loop
IdleInRange ==
    pc = "monitor" =>
        /\ idle_seconds >= 0 /\ idle_seconds % 5 = 0
        /\ args.auto_off > 0 => idle_seconds < args.auto_off * 60
        /\ args.auto_off = 0 => idle_seconds = 0 /\ check_counter = 0

\* without the timer an iteration of the loop neither samples nor ends the loop
NoTimerNoAutoOff ==
    (pc = "monitor" /\ args.auto_off = 0 /\ ~signalled') =>
        /\ pc' = "monitor"
        /\ idle_seconds' = 0 /\ check_counter' = 0

\* C38: in the monitor loop the idle accumulator is a non-negative multiple of
\* 5, below auto_off * 60 while the loop continues with the timer set; with
\* auto_off = 0 no sample is taken, the accumulator stays 0 and the loop is
\* never ended by the timer.
C38_IdleAccumulator == [] IdleInRange /\ [][NoTimerNoAutoOff]_vars

\* the loop continues one sample before the timer fires
C38_Witness ==
    /\ pc = "monitor" /\ args.auto_off = 1
    /\ idle_seconds = 55 /\ check_counter = 4


\* the recorded upstream in a state of the monitor loop
UpstreamNotAp ==
    pc = "monitor" =>
        \/ CURRENT_UPSTREAM_IFACE = NoIface
        \/ CURRENT_UPSTREAM_IFACE # actual_hotspot_iface

\* a step that changes the recorded upstream is an iteration of the loop that
\* resolved a new upstream other than the AP interface and recorded it
UpstreamStep ==
    /\ CURRENT_UPSTREAM_IFACE # NoIface => CURRENT_UPSTREAM_IFACE' # NoIface
    /\ CURRENT_UPSTREAM_IFACE' # CURRENT_UPSTREAM_IFACE =>
           /\ pc = "monitor"
           /\ get_upstream_interface(routes, EXCLUDE_VPN) # NoIface
           /\ get_upstream_interface(routes, EXCLUDE_VPN) # CURRENT_UPSTREAM_IFACE
           /\ get_upstream_interface(routes, EXCLUDE_VPN) # actual_hotspot_iface
           /\ CURRENT_UPSTREAM_IFACE' = get_upstream_interface(routes, EXCLUDE_VPN)

\* C39: in the monitor loop the recorded upstream is unset or an interface
\* other than the AP interface; once set it is never unset; it changes only
\* in an iteration whose resolved upstream is non-empty and differs from the
\* recorded upstream and from the AP interface.
C39_RecordedUpstream == [] UpstreamNotAp /\ [][UpstreamStep]_vars

\* the default route now leads through the AP interface and the recorded
\* upstream is still the earlier one
C39_Witness ==
    /\ pc = "monitor"
    /\ CURRENT_UPSTREAM_IFACE # NoIface
    /\ get_upstream_interface(routes, EXCLUDE_VPN) = actual_hotspot_iface

=============================================================================
